---- MODULE Spec2Model ----
(***************************************************************************)
(* A model of the crawl engine of go_go_go: the Frontier (deduplicating,   *)
(* per-host round-robin queue with politeness), the Crawler main loop with *)
(* its worker goroutines, semaphore, wait-group, counters and sink, the    *)
(* RetryHandler, the robots gate, the scope filter, seeding, the parser's  *)
(* URL normalization, the shutdown of the enhanced crawler, the proxy      *)
(* leases and the persona pool.                                            *)
(*                                                                         *)
(* The specifications share the operators and the variables:               *)
(*   SpecFrontier  the frontier driven by arbitrary callers of Add, Next   *)
(*                 while time passes;                                      *)
(*   Spec          Crawler.Crawl: the main loop and the worker goroutines; *)
(*   SpecShutdown  Spec with a concurrent Crawler.Close, under fairness;   *)
(*   SpecRetry     the retry loop of processURL and the RetryHandler;      *)
(*   SpecHandler   direct, concurrent calls of the RetryHandler's methods; *)
(*   SpecSeed      New() with a seeding strategy that returns URLs;        *)
(*   SpecRobots    successive checks of URLs against the robots gate;      *)
(*   SpecParse     shouldCrawl, normalizeURL and removeTrackingParams on   *)
(*                 a bounded universe of inputs;                           *)
(*   SpecConfig    NewFromConfig on a bounded universe of configurations;  *)
(*   SpecRace      two goroutines checking URLs against the robots gate;   *)
(*   SpecClose     the crawl command: construction, Crawl and every Close; *)
(*   SpecLease     LeaseProxy, ReleaseProxy and CleanupExpiredLeases of    *)
(*                 the EnhancedProxyManager while time passes;             *)
(*   SpecPool      GetOrCreatePersona on pools of bounded size.            *)
(***************************************************************************)
EXTENDS Integers, Sequences, FiniteSets, TLC

(***************************************************************************)
(* Bounds of the model.                                                    *)
(***************************************************************************)
\* free clock ticks (of TickMs each) the environment may insert
MaxTicks == 3

(***************************************************************************)
(* Program constants.                                                      *)
(***************************************************************************)
\* hostQueue.politenessMs, set when a host queue is created
PolitenessMs == 100
\* the zero time.Time a new hostQueue's lastAccess holds
ZeroTime == 0
\* time.Sleep(1 * time.Second) between the two IsEmpty polls
GraceMs == 1000
\* time.Sleep(100 * time.Millisecond) after an unsuccessful Next
PollMs == 100

TickMs == PolitenessMs \div 2
\* time.Now() at construction: far later than the zero time
StartTime == ZeroTime + PolitenessMs
MaxClock == StartTime + MaxTicks * TickMs

(***************************************************************************)
(* URLs.  url.Parse is modelled by what it yields for each string of the   *)
(* universe: a scheme and a host, or an error.                             *)
(***************************************************************************)
BadURL == ":bad"
URLs == {"http://t/1", "http://t/2", "http://sub.t/1", "http://sub.t/2", BadURL}

\* URLs of other hosts and schemes, which links and seeding may bring up
OtherURLs == {"http://xt/1", "http://other/x", "ftp://t/1", "https://t/1"}
AllURLs == URLs \cup OtherURLs

\* url.Parse(u) returns err == nil
Parses(u) == u # BadURL

\* url.Parse(u).Host
HostOf(u) ==
    CASE u \in {"http://t/1", "http://t/2", "ftp://t/1", "https://t/1"} -> "t"
      [] u \in {"http://sub.t/1", "http://sub.t/2"} -> "sub.t"
      [] u = "http://xt/1" -> "xt"
      [] u = "http://other/x" -> "other"
      [] OTHER -> ""

\* the bit positions the approximate set's hash functions give a key;
\* "http://sub.t/1" collides with the union of the two "t" URLs (a false
\* positive of the set once both are in it)
BloomBits(u) ==
    CASE u = "http://t/1" -> {1, 2}
      [] u = "http://t/2" -> {3, 4}
      [] u = "http://sub.t/1" -> {2, 3}
      [] u = "http://sub.t/2" -> {5, 6}
      [] u = "http://xt/1" -> {8, 9}
      [] u = "http://other/x" -> {10, 11}
      [] u = "ftp://t/1" -> {12, 13}
      [] u = "https://t/1" -> {14, 15}
      [] OTHER -> {7}

NoItem == [url |-> "", depth |-> 0]

VARIABLES
    \* ---- Frontier ----
    queues,      \* map host -> [urls, lastAccess, politenessMs]
    seen,        \* the approximate set: the bits that are set
    discovered,  \* Frontier.discovered
    processed,   \* Frontier.processed
    hosts,       \* the round-robin ring
    hostIndex,   \* the cursor into the ring (0-based)
    now,         \* the clock time.Now() reads
    \* ---- observations of the frontier's callers ----
    addLog,      \* per host, the items successful Adds handed in, in order
    retLog,      \* per host, the items Next returned, in order
    lastAdd,     \* the most recent Add call and what it did
    lastNext,    \* the most recent Next call and what it did
    prevDeq,     \* per host, the time of the last Next that returned it
    passedSince, \* per host, the hosts the cursor reached since then
    \* ---- Crawler ----
    mainPc,      \* where the goroutine running Crawl() stands
    cur,         \* the item Crawl() holds between Next and the spawn
    tasks,       \* the goroutines spawned so far, in spawn order
    sem,         \* number of permits held in the channel c.sem
    wg,          \* the wait-group counter
    cDiscovered, \* Crawler.discovered
    cProcessed,  \* Crawler.processed
    cErrors,     \* Crawler.errors
    panicCount,  \* SafeProcessor.panicCount
    shutdown,    \* Crawler.shutdown
    storageOpen, \* whether Storage.jsonl is still open
    sink,        \* per URL, the error strings of the records written
    results,     \* the Results Crawl() returns
    \* ---- RetryHandler and the retry loop of processURL ----
    hostRetries, \* map host -> [mu, consecutiveFails, backoffUntil]
    gs,          \* per goroutine, where it stands in the retry code
    script,      \* the answers the server still has for the worker's URL
    requests,    \* number of requests the server has seen
    maxRetries,  \* config.MaxRetries
    recLog,      \* per host, the outcomes recorded by the retry handler
    rResult,     \* the PageResult the retry worker came to
    probe,       \* the most recent call of a pure function and its value
    \* ---- robots cache, seeding ----
    robotsCache, \* Crawler.robotsCache: the keys whose rules are cached
    seeds,       \* the URLs of the seeding strategies not yet added
    \* ---- concurrent robots checks, the crawl command, proxies, personas --
    checks,      \* per goroutine, where it stands in isAllowedByRobots
    cli,         \* the crawl command: its crawler and the resources it holds
    epm,         \* EnhancedProxyManager: enhancedProxies and leases
    lastLease,   \* the most recent call of the lease API and what it did
    pool,        \* PersonaPool: personas and configuration
    lastPersona  \* the most recent GetOrCreatePersona call and its result

fvars == <<queues, seen, discovered, processed, hosts, hostIndex>>
obsvars == <<addLog, retLog, lastAdd, lastNext, prevDeq, passedSince>>
evars == <<mainPc, cur, tasks, sem, wg, cDiscovered, cProcessed, cErrors,
           panicCount, shutdown, storageOpen, sink, results>>
rvars == <<hostRetries, gs, script, requests, maxRetries, recLog, rResult,
           probe>>
pvars == <<checks, cli, epm, lastLease, pool, lastPersona>>
xvars == <<robotsCache, seeds, pvars>>
vars == <<fvars, now, obsvars, evars, rvars, xvars>>

HostNames == {HostOf(u) : u \in AllURLs}

(***************************************************************************)
(* Frontier                                                                *)
(***************************************************************************)
SeenTest_Never(s, u) == FALSE
\* f.seen.Test(urlBytes)
SeenTest(s, u) == BloomBits(u) \subseteq s

SeenAdd_None(s, u) == s
\* f.seen.Add(urlBytes)
SeenAdd(s, u) == s \cup BloomBits(u)

AppendHost_Always(hs, exists, host) == Append(hs, host)
\* if !exists { ...; f.hosts = append(f.hosts, host) }
AppendHost(hs, exists, host) == IF exists THEN hs ELSE Append(hs, host)

\* &hostQueue{urls: make(..., 0), politenessMs: 100}
NewHostQueue ==
    [urls |-> <<>>, lastAccess |-> ZeroTime, politenessMs |-> PolitenessMs]

\* Frontier.Add: the frontier after the call, and the value returned
AddResult(item) ==
    LET f == [queues |-> queues, seen |-> seen, discovered |-> discovered,
              hosts |-> hosts, ok |-> FALSE]
    IN  IF SeenTest(seen, item.url)
        THEN f
        ELSE LET g == [f EXCEPT !.seen = SeenAdd(seen, item.url),
                                !.discovered = discovered + 1]
                 host == HostOf(item.url)
                 exists == host \in DOMAIN queues
                 q == IF exists THEN queues[host] ELSE NewHostQueue
                 q2 == [q EXCEPT !.urls = Append(q.urls, item)]
             IN  IF ~Parses(item.url)
                 THEN g
                 ELSE [g EXCEPT
                         !.queues = [h \in (DOMAIN queues) \cup {host} |->
                                        IF h = host THEN q2 ELSE queues[h]],
                         !.hosts = AppendHost(hosts, exists, host),
                         !.ok = TRUE]

\* what an observer of the queues sees a call append to host h
Appended(h, after) ==
    LET old == IF h \in DOMAIN queues THEN queues[h].urls ELSE <<>>
        new == IF h \in DOMAIN after THEN after[h].urls ELSE <<>>
    IN  IF Len(new) > Len(old) THEN SubSeq(new, Len(old) + 1, Len(new))
        ELSE <<>>

\* a call of Frontier.Add(item) by any goroutine (the mutex makes it atomic)
Add(item) ==
    LET r == AddResult(item)
    IN  /\ queues' = r.queues
        /\ seen' = r.seen
        /\ discovered' = r.discovered
        /\ hosts' = r.hosts
        /\ UNCHANGED <<processed, hostIndex>>
        /\ addLog' = [h \in HostNames |-> addLog[h] \o Appended(h, r.queues)]
        /\ lastAdd' = [url |-> IF SeenTest(seen, item.url)
                                   \/ ~Parses(item.url)
                                THEN item.url ELSE "",
                        seenBefore |-> SeenTest(seen, item.url),
                        ok |-> r.ok,
                        bad |-> ~Parses(item.url),
                        grew |-> (r.queues # queues \/ r.hosts # hosts),
                        counted |-> r.discovered - discovered,
                        same |-> (<<r.queues, r.seen, r.discovered, r.hosts>>
                                  = <<queues, seen, discovered, hosts>>)]
        /\ UNCHANGED <<retLog, lastNext, prevDeq, passedSince>>

Polite_Always(q, t) == TRUE
\* !(now.Sub(queue.lastAccess) < politenessMs ms)
Polite(q, t) == ~(t - q.lastAccess < q.politenessMs)

Advance_Stay(idx, n) == idx
\* f.hostIndex = (f.hostIndex + 1) % len(f.hosts)
Advance(idx, n) ==
    LET j == (idx + 1) % n IN IF j >= n THEN 0 ELSE j

\* the loop of Frontier.Next from iteration i with the cursor at idx;
\* visited collects the hosts the cursor reached
RECURSIVE NextScan(_, _, _)
NextScan(i, idx, visited) ==
    IF i >= Len(hosts)
    THEN [found |-> FALSE, idx |-> idx, host |-> "", visited |-> visited]
    ELSE LET j == Advance(idx, Len(hosts))
             host == hosts[j + 1]
             queue == queues[host]
         IN  IF Polite(queue, now) /\ Len(queue.urls) > 0
             THEN [found |-> TRUE, idx |-> j, host |-> host,
                   visited |-> visited \cup {host}]
             ELSE NextScan(i + 1, j, visited \cup {host})

\* queue.urls = queue.urls[1:]; queue.lastAccess = now
PopHead(q, t) == [q EXCEPT !.urls = Tail(q.urls), !.lastAccess = t]

Dequeue_TouchAll(qs, host, t) ==
    [h \in DOMAIN qs |-> IF h = host THEN PopHead(qs[h], t)
                         ELSE [qs[h] EXCEPT !.lastAccess = t]]
\* queue := f.queues[host]: only the chosen host's queue is written
Dequeue(qs, host, t) == [qs EXCEPT ![host] = PopHead(@, t)]

NextItem_Last(q) == q.urls[Len(q.urls)]
\* item := queue.urls[0]
NextItem(q) == Head(q.urls)

\* Frontier.Next: the scan's outcome
NextResult == NextScan(0, hostIndex, {})

\* a call of Frontier.Next() by any goroutine
Next ==
    LET r == NextResult
        item == IF r.found THEN NextItem(queues[r.host]) ELSE NoItem
        passed == [h \in HostNames |-> passedSince[h] \cup r.visited]
    IN  /\ hostIndex' = r.idx
        /\ queues' = IF r.found
                     THEN Dequeue(queues, r.host, now)
                     ELSE queues
        /\ UNCHANGED <<seen, discovered, processed, hosts>>
        /\ retLog' = IF r.found
                     THEN [retLog EXCEPT ![r.host] = Append(@, item)]
                     ELSE retLog
        /\ lastNext' = [ok |-> r.found, host |-> r.host,
                        prev |-> IF r.found THEN prevDeq[r.host] ELSE -1,
                        passed |-> IF r.found THEN passed[r.host] ELSE {},
                        ring |-> {hosts[k] : k \in 1..Len(hosts)},
                        same |-> (r.idx = hostIndex /\ ~r.found)]
        /\ prevDeq' = IF r.found THEN [prevDeq EXCEPT ![r.host] = now]
                      ELSE prevDeq
        /\ passedSince' = IF r.found THEN [passed EXCEPT ![r.host] = {}]
                          ELSE passed
        /\ UNCHANGED <<addLog, lastAdd>>

MarkProcessed_Twice ==
    /\ processed' = processed + 2
    /\ UNCHANGED <<queues, seen, discovered, hosts, hostIndex>>
\* Frontier.MarkProcessed
MarkProcessed ==
    /\ processed' = processed + 1
    /\ UNCHANGED <<queues, seen, discovered, hosts, hostIndex>>

\* Frontier.IsEmpty
IsEmpty == \A h \in DOMAIN queues : ~(Len(queues[h].urls) > 0)

RECURSIVE SumLen(_)
SumLen(hs) ==
    IF hs = {} THEN 0
    ELSE LET h == CHOOSE x \in hs : TRUE
         IN  Len(queues[h].urls) + SumLen(hs \ {h})
\* Frontier.Size
Size == SumLen(DOMAIN queues)

(***************************************************************************)
(* Crawler: configuration and collaborators                                *)
(***************************************************************************)
\* config.StartURL
StartURL == "http://t/1"

\* parser.ExtractLinks(body, u): the links of each page of the site, in
\* document order, without repetition
Links(u) ==
    CASE u = "http://t/1" -> <<"http://sub.t/1", "http://t/2">>
      [] u = "http://t/2" -> <<"http://t/1", "http://sub.t/2">>
      [] u = "http://sub.t/1" -> <<"http://t/2", "http://sub.t/2">>
      [] OTHER -> <<>>

\* what can happen to the processing of each URL that passes the robots
\* gate: "ok" (200 and a body), an early return with result.Error set, a
\* fault anywhere in processURL ("panic"), or a request
\* that ends in an error or a retryable status ("retryable failure"), on
\* which processURL calls RetryHandler.RecordFailure
Outcomes(u) ==
    CASE u = "http://t/1" -> {"ok", "retryable failure"}
      [] u = "http://t/2" -> {"ok", "panic"}
      [] u = "http://sub.t/1" -> {"ok", "non-200 status"}
      [] OTHER -> {"body read failed", "panic"}

\* parsedLink.Scheme
SchemeOf(u) ==
    CASE ~Parses(u) -> ""
      [] u = "ftp://t/1" -> "ftp"
      [] u = "https://t/1" -> "https"
      [] OTHER -> "http"

\* the characters of each host name
Chars(h) ==
    CASE h = "t" -> <<"t">>
      [] h = "sub.t" -> <<"s", "u", "b", ".", "t">>
      [] h = "xt" -> <<"x", "t">>
      [] h = "other" -> <<"o", "t", "h", "e", "r">>
      [] OTHER -> <<>>

\* strings.HasSuffix on character sequences
HasSuffixChars(a, b) ==
    /\ Len(a) >= Len(b)
    /\ SubSeq(a, Len(a) - Len(b) + 1, Len(a)) = b

\* strings.HasSuffix(s, suffix) on host names
HasSuffix(s, suffix) == HasSuffixChars(Chars(s), Chars(suffix))

\* config.CrawlExternalLinks
CrawlExternalLinks == FALSE

\* Crawler.shouldCrawl
shouldCrawl(link, baseURL) ==
    IF ~Parses(link) THEN FALSE
    ELSE IF SchemeOf(link) # "http" /\ SchemeOf(link) # "https" THEN FALSE
    ELSE IF CrawlExternalLinks THEN TRUE
    ELSE IF ~Parses(baseURL) THEN FALSE
    ELSE IF ~HasSuffix(HostOf(link), HostOf(baseURL))
            /\ HostOf(link) # HostOf(baseURL) THEN FALSE
    ELSE TRUE

\* config.IgnoreRobots
IgnoreRobots == FALSE

\* what c.client.Get(robotsURL) and the reading of the body come to: an
\* error, or a status with a body that parses to the rules of the origin,
\* that cannot be read (io.ReadAll fails) or that robotstxt.FromBytes
\* turns down
FetchError == [err |-> TRUE, status |-> 0, body |-> ""]
Response(s, b) == [err |-> FALSE, status |-> s, body |-> b]
Served == Response(200, "rules")
NotFound == Response(404, "rules")
NoFetch == [err |-> FALSE, status |-> -1, body |-> ""]

\* what the fetch of robots.txt comes to for each host during a crawl
RobotsFetchOutcomes(h) ==
    CASE h = "sub.t" -> {Served, FetchError}
      [] OTHER -> {NotFound}

\* the URLs whose path the robots.txt of host h disallows for the crawler
Disallowed(h) ==
    CASE h = "sub.t" -> {"http://sub.t/1"}
      [] OTHER -> {}

TestAgent_AllowAll(h, u) == TRUE
\* robots.TestAgent(parsedURL.Path, "GoGoGoBot") on the rules of host h
TestAgent(h, u) == u \notin Disallowed(h)

\* the key of the cache: scheme://host/robots.txt
RobotsURL(u) == <<SchemeOf(u), HostOf(u)>>

\* isAllowedByRobots from the return of c.client.Get(robotsURL), which came
\* to f, to its own return
AfterGet(u, f) ==
    LET h == HostOf(u)
        key == RobotsURL(u)
    IN  IF f.err
        THEN [allowed |-> TRUE, cache |-> robotsCache, fetched |-> TRUE]
        ELSE IF f.status = 404
        THEN [allowed |-> TRUE, cache |-> robotsCache, fetched |-> TRUE]
        ELSE IF f.body = "unreadable"
        THEN [allowed |-> TRUE, cache |-> robotsCache, fetched |-> TRUE]
        ELSE IF f.body = "unparsable"
        THEN [allowed |-> TRUE, cache |-> robotsCache, fetched |-> TRUE]
        ELSE [allowed |-> TestAgent(h, u), cache |-> robotsCache \cup {key},
              fetched |-> TRUE]

\* Crawler.isAllowedByRobots(u) when the fetch of robots.txt, if one is
\* made, comes to f: the value returned, the cache afterwards, and whether
\* the fetch was made
isAllowedByRobots(u, f) ==
    LET h == HostOf(u)
        key == RobotsURL(u)
    IN  IF ~Parses(u)
        THEN [allowed |-> FALSE, cache |-> robotsCache, fetched |-> FALSE]
        ELSE IF key \in robotsCache
        THEN [allowed |-> TestAgent(h, u), cache |-> robotsCache,
              fetched |-> FALSE]
        ELSE AfterGet(u, f)

NoResults == [Discovered |-> -1, Processed |-> -1, Errors |-> -1]

\* the Crawler as New() leaves it, before the seed is added
InitCrawler ==
    /\ mainPc = "new"
    /\ cur = NoItem
    /\ tasks = <<>>
    /\ sem = 0
    /\ wg = 0
    /\ cDiscovered = 0
    /\ cProcessed = 0
    /\ cErrors = 0
    /\ panicCount = 0
    /\ shutdown = FALSE
    /\ storageOpen = TRUE
    /\ sink = [u \in URLs |-> <<>>]
    /\ results = NoResults

(***************************************************************************)
(* RetryHandler (internal/http) and the retry loop of processURL.  A       *)
(* goroutine runs from one blocking point (a mutex Lock, a request) to the *)
(* next in one step.                                                       *)
(***************************************************************************)
\* attempts a caller may ask GetBackoff about
MaxAttempt == 6
\* outcomes recorded per host while direct callers still record
MaxRecords == 2

\* DefaultRetryConfig
DefaultMaxRetries == 3
InitialBackoff == 1000
MaxBackoff == 30000
BackoffFactor == 2

\* the hosts the retry handler is asked about
RetryHosts == {"t", "sub.t"}
\* the URL the retry worker processes
RetryURL == "http://t/1"

\* what makeRequest returns: (resp, nil) with a status, or (nil, err)
Answer(s) == [status |-> s, err |-> FALSE]
NetErr == [status |-> 0, err |-> TRUE]
NoAnswer == [status |-> -1, err |-> FALSE]

\* status codes of the universe
Statuses == {0, 200, 301, 400, 404, 429, 500, 501, 502, 503, 504}

Script503 == <<Answer(503), Answer(503), Answer(200)>>
\* the behaviours of the server for RetryURL (200 once a script is used up)
Scripts ==
    {<<>>, Script503, <<Answer(404)>>, <<NetErr, Answer(200)>>,
     <<Answer(429), Answer(200)>>,
     <<Answer(500), Answer(500), Answer(500), Answer(500)>>}

\* the values config.MaxRetries takes
MaxRetriesValues == {0, 1, DefaultMaxRetries}

Goroutines == {"worker", "prober"}

\* the statusCode arguments of direct RecordFailure calls (0: a network
\* error)
FailureStatuses == {0, 429, 503}

ShouldRetry_No504(statusCode, err) ==
    IF err THEN TRUE ELSE statusCode \in {429, 500, 502, 503}
\* RetryHandler.ShouldRetry
ShouldRetry(statusCode, err) ==
    IF err THEN TRUE
    ELSE CASE statusCode = 429 -> TRUE
           [] statusCode = 500 -> TRUE
           [] statusCode = 502 -> TRUE
           [] statusCode = 503 -> TRUE
           [] statusCode = 504 -> TRUE
           [] OTHER -> FALSE

\* the loop of GetBackoff: for i := 0; i < attempt; i++ { backoff *= factor;
\* if backoff > MaxBackoff { backoff = MaxBackoff; break } }
RECURSIVE BackoffLoop(_, _, _)
BackoffLoop(i, attempt, backoff) ==
    IF ~(i < attempt) THEN backoff
    ELSE LET b == backoff * BackoffFactor
         IN  IF b > MaxBackoff THEN MaxBackoff
             ELSE BackoffLoop(i + 1, attempt, b)

BackoffBase_NoCap(attempt) == InitialBackoff * (BackoffFactor ^ attempt)
\* GetBackoff: the backoff before jitter
BackoffBase(attempt) == BackoffLoop(0, attempt, InitialBackoff)

\* time.Now().UnixNano() % 100, sampled
JitterSamples == {0, 50, 99}
\* backoff * 0.2 * (2.0*m/100.0 - 1.0); backoff is a multiple of 1000 here
Jitter(backoff, m) == 2 * (backoff \div 1000) * (2 * m - 100)

\* &hostRetryState{}
NewRetryState ==
    [mu |-> "", consecutiveFails |-> 0, lastFailTime |-> ZeroTime,
     backoffUntil |-> ZeroTime]

getOrCreateState_Shared(host) == "t"
\* rh.getOrCreateState(host): the key of the state a call works on
getOrCreateState(host) == host

Before_Inverted(t, u) == u < t
\* time.Time.Before
Before(t, u) == t < u

\* sync.Mutex.Lock proceeds only on an unlocked mutex, whoever holds it
CanLock(mu, g) == mu = ""
\* sync.Mutex.Unlock of an unlocked mutex is a fatal error
UnlockFatal(mu) == mu = ""

\* a goroutine outside the retry code
IdleG ==
    [pc |-> "idle", fn |-> "", ret |-> "", outer |-> FALSE, host |-> "",
     k |-> 0, status |-> 0, attempt |-> 0, mr |-> 0, resp |-> NoAnswer]

\* g calls method fn of the handler: it stands at state.mu.Lock()
Call(w, fn, host, k, status, ret) ==
    [w EXCEPT !.pc = "lock", !.fn = fn, !.host = host, !.k = k,
              !.status = status, !.ret = ret]

NoProbe == [fn |-> "", host |-> "", k |-> 0, status |-> 0, err |-> FALSE,
            base |-> 0, value |-> 0, inBackoff |-> FALSE, retry |-> FALSE,
            last |-> ""]
NoRResult == [status |-> -1, error |-> "", written |-> 0]

\* no retry worker runs (the specifications of the frontier and of Crawl)
InitNoRetry ==
    /\ hostRetries = [h \in RetryHosts |-> NewRetryState]
    /\ gs = [g \in Goroutines |-> IdleG]
    /\ script = <<>>
    /\ requests = <<>>
    /\ maxRetries = DefaultMaxRetries
    /\ recLog = [h \in RetryHosts |-> <<>>]
    /\ rResult = NoRResult
    /\ probe = NoProbe

(***************************************************************************)
(* The collaborators of the enhanced crawler as their constructors leave   *)
(* them.                                                                   *)
(***************************************************************************)
\* a goroutine outside isAllowedByRobots
IdleCheck == [pc |-> "idle", url |-> "", answer |-> NoFetch,
              fetched |-> FALSE, allowed |-> FALSE, late |-> FALSE]

\* no goroutine is inside isAllowedByRobots
InitNoChecks == checks = [g \in Goroutines |-> IdleCheck]

\* what Close() releases: the channel ProxyManager.stopChan, the renderer's
\* allocator context, the SQLite handle, the JSONL file
Resources == {"stopChan", "allocCancel", "db", "jsonl"}

\* the feature flags of types.Config
FeatureConfigs ==
    [EnablePersonas : BOOLEAN, EnableProxies : BOOLEAN,
     EnableWeightedNav : BOOLEAN, EnableJSRendering : BOOLEAN,
     EnableSQLite : BOOLEAN]

NoFeatures ==
    [EnablePersonas |-> FALSE, EnableProxies |-> FALSE,
     EnableWeightedNav |-> FALSE, EnableJSRendering |-> FALSE,
     EnableSQLite |-> FALSE]

\* the crawl command before it has built a crawler; proxyManager,
\* chromeRenderer and sqliteStorage say whether the field is non-nil
NoCli == [pc |-> "start", kind |-> "", config |-> NoFeatures,
          proxyManager |-> FALSE, chromeRenderer |-> FALSE,
          sqliteStorage |-> FALSE, released |-> [r \in Resources |-> 0],
          closes |-> 0, err |-> FALSE, fault |-> FALSE]

InitNoCli == cli = NoCli

\* the personas that lease and the proxies AddEnhancedProxy has put in
PersonaIDs == {"A", "B"}
ProxyURLs == {"p1", "p2"}

\* an EnhancedProxy no one has leased: LeasedTo "", LeaseExpires zero
FreeProxy(c) == [LeasedTo |-> "", LeaseExpires |-> ZeroTime, FailCount |-> 0,
                 SuccessCount |-> 0, Country |-> c]

\* NewEnhancedProxyManager followed by AddEnhancedProxy of each proxy; a
\* persona without an entry in epm.leases maps to ""
NewEnhancedProxyManager ==
    [enhancedProxies |-> [p \in ProxyURLs |->
                             FreeProxy(IF p = "p1" THEN "US" ELSE "DE")],
     leases |-> [a \in PersonaIDs |-> ""],
     maxFailCount |-> 3]

NoLease == [fn |-> "", persona |-> "", proxy |-> "", owner |-> "",
            valid |-> FALSE]

InitNoLeases ==
    /\ epm = NewEnhancedProxyManager
    /\ lastLease = NoLease

\* NewPersonaPool(maxPersonas, lifetime, reuseThreshold); nextId stands for
\* the ids generateID has not drawn yet
NewPersonaPool(m, l, r) ==
    [personas |-> {}, maxPersonas |-> m, personaLifetime |-> l,
     reuseThreshold |-> r, nextId |-> 1]

NoPersonaCall == [host |-> "", id |-> 0, created |-> FALSE, err |-> FALSE,
                  prevHost |-> "", expect |-> 0]

InitNoPool ==
    /\ pool = NewPersonaPool(2, 2 * TickMs, 2)
    /\ lastPersona = NoPersonaCall

InitNoCollaborators ==
    /\ InitNoChecks
    /\ InitNoCli
    /\ InitNoLeases
    /\ InitNoPool

\* an empty robots cache, and SeedingStrategy "none"
InitNoSeeding ==
    /\ robotsCache = {}
    /\ seeds = <<>>
    /\ InitNoCollaborators

(***************************************************************************)
(* SpecFrontier: the frontier and its callers.                             *)
(***************************************************************************)
InitFrontierVars ==
    /\ queues = << >>
    /\ seen = {}
    /\ discovered = 0
    /\ processed = 0
    /\ hosts = <<>>
    /\ hostIndex = 0
    /\ now = StartTime
    /\ addLog = [h \in HostNames |-> <<>>]
    /\ retLog = [h \in HostNames |-> <<>>]
    /\ lastAdd = [url |-> "", seenBefore |-> FALSE, ok |-> FALSE,
                  bad |-> FALSE, grew |-> FALSE, counted |-> 0,
                  same |-> TRUE]
    /\ lastNext = [ok |-> FALSE, host |-> "",
                   prev |-> -1, passed |-> {}, ring |-> {}, same |-> TRUE]
    /\ prevDeq = [h \in HostNames |-> -1]
    /\ passedSince = [h \in HostNames |-> {}]

InitFrontier ==
    /\ InitFrontierVars
    /\ InitCrawler
    /\ InitNoRetry
    /\ InitNoSeeding

\* a caller adds some URL
CallAdd ==
    \E u \in URLs :
        /\ Add([url |-> u, depth |-> 0])
        /\ UNCHANGED <<now, evars>>
        /\ UNCHANGED rvars
        /\ UNCHANGED xvars

\* a caller polls Next
CallNext ==
    /\ Next
    /\ UNCHANGED <<now, evars>>
    /\ UNCHANGED rvars
    /\ UNCHANGED xvars

\* time passes
Tick ==
    /\ now < MaxClock
    /\ now' = now + TickMs
    /\ UNCHANGED <<fvars, obsvars, evars>>
    /\ UNCHANGED rvars
    /\ UNCHANGED xvars

NextFrontier == CallAdd \/ CallNext \/ Tick

SpecFrontier == InitFrontier /\ [][NextFrontier]_vars

(***************************************************************************)
(* Crawler.Crawl: the main loop.  The retry loop of processURL is one      *)
(* step here (it touches only the retry handler).  Only Frontier.Next      *)
(* reads the clock and only the main goroutine calls it, so in this        *)
(* specification time advances with the main goroutine's sleeps.           *)
(***************************************************************************)
\* number of workers: config.Workers, the capacity of c.sem
Workers == 2

\* New(): c.frontier.Add(types.URLItem{URL: config.StartURL, Depth: 0});
\* c.runSeeding() returns at once when no strategy yields a URL
MainNew ==
    /\ mainPc = "new"
    /\ Add([url |-> StartURL, depth |-> 0])
    /\ mainPc' = IF seeds = <<>> THEN "loop" ELSE "seeding"
    /\ UNCHANGED <<now, cur, tasks, sem, wg, cDiscovered, cProcessed, cErrors,
                   panicCount, shutdown, storageOpen, sink, results>>
    /\ UNCHANGED rvars
    /\ UNCHANGED xvars

\* for !c.shutdown.Load() { if c.frontier.IsEmpty() { ...
MainLoop ==
    /\ mainPc = "loop"
    /\ mainPc' = IF shutdown THEN "wait"
                 ELSE IF IsEmpty THEN "grace" ELSE "next"
    /\ UNCHANGED <<fvars, now, obsvars, cur, tasks, sem, wg, cDiscovered,
                   cProcessed, cErrors, panicCount, shutdown, storageOpen,
                   sink, results>>
    /\ UNCHANGED rvars
    /\ UNCHANGED xvars

\* the second poll: if c.frontier.IsEmpty() { break }
GraceBreaks == IsEmpty

\* time.Sleep(1 * time.Second); if c.frontier.IsEmpty() { break }
MainGrace ==
    /\ mainPc = "grace"
    /\ now' = now + GraceMs
    /\ mainPc' = IF GraceBreaks THEN "wait" ELSE "next"
    /\ UNCHANGED <<fvars, obsvars, cur, tasks, sem, wg, cDiscovered,
                   cProcessed, cErrors, panicCount, shutdown, storageOpen,
                   sink, results>>
    /\ UNCHANGED rvars
    /\ UNCHANGED xvars

\* item, ok := c.frontier.Next(); if !ok { time.Sleep(100ms); continue }
MainNext ==
    /\ mainPc = "next"
    /\ Next
    /\ IF NextResult.found
       THEN /\ cur' = NextItem(queues[NextResult.host])
            /\ mainPc' = "acquire"
            /\ UNCHANGED now
       ELSE /\ cur' = cur
            /\ mainPc' = "loop"
            /\ now' = now + PollMs
    /\ UNCHANGED <<tasks, sem, wg, cDiscovered, cProcessed, cErrors,
                   panicCount, shutdown, storageOpen, sink, results>>
    /\ UNCHANGED rvars
    /\ UNCHANGED xvars

CanAcquire_Always(n) == TRUE
\* c.sem <- struct{}{} proceeds only while the channel has room
CanAcquire(n) == n < Workers

NewTask(item) ==
    [item |-> item, pc |-> "run", err |-> "", status |-> 0, li |-> 1,
     panicked |-> FALSE, released |-> 0, done |-> 0, denied |-> FALSE,
     requested |-> FALSE, errs |-> 0]

\* c.sem <- struct{}{}; c.wg.Add(1); go safeProcessor.ProcessURLSafely(item)
MainSpawn ==
    /\ mainPc = "acquire"
    /\ CanAcquire(sem)
    /\ sem' = sem + 1
    /\ wg' = wg + 1
    /\ tasks' = Append(tasks, NewTask(cur))
    /\ cur' = NoItem
    /\ mainPc' = "loop"
    /\ UNCHANGED <<fvars, now, obsvars, cDiscovered, cProcessed, cErrors,
                   panicCount, shutdown, storageOpen, sink, results>>
    /\ UNCHANGED rvars
    /\ UNCHANGED xvars

\* c.wg.Wait(); results := &types.Results{...}
MainWait ==
    /\ mainPc = "wait"
    /\ wg = 0
    /\ results' = [Discovered |-> cDiscovered, Processed |-> cProcessed,
                   Errors |-> cErrors]
    /\ mainPc' = "close"
    /\ UNCHANGED <<fvars, now, obsvars, cur, tasks, sem, wg, cDiscovered,
                   cProcessed, cErrors, panicCount, shutdown, storageOpen,
                   sink>>
    /\ UNCHANGED rvars
    /\ UNCHANGED xvars

\* return results, nil: the deferred c.Close() and c.storage.Close() run
\* (Crawler.Close: shutdown.Store(true); cancel(); storage.Close())
MainClose ==
    /\ mainPc = "close"
    /\ shutdown' = TRUE
    /\ storageOpen' = FALSE
    /\ mainPc' = "returned"
    /\ UNCHANGED <<fvars, now, obsvars, cur, tasks, sem, wg, cDiscovered,
                   cProcessed, cErrors, panicCount, sink, results>>
    /\ UNCHANGED rvars
    /\ UNCHANGED xvars

(***************************************************************************)
(* A worker goroutine: SafeProcessor.ProcessURLSafely -> Crawler.processURL*)
(***************************************************************************)
\* Storage.SaveResult: the write fails on a closed file and the record is
\* lost (the error is ignored by every caller)
SaveResult(u, err, status) ==
    IF storageOpen
    THEN [sink EXCEPT ![u] = Append(@, [error |-> err, status |-> status])]
    ELSE sink

AfterPanic_SkipDefers == "recover"
\* a panic in processURL first runs processURL's own deferred calls
\* (<-c.sem, then c.wg.Done()), then the recover() of ProcessURLSafely
AfterPanic == "release"

\* a goroutine stands in RecordFailure for host h: it holds the host's
\* state.mu and waits for it in GetBackoff, so it never returns and every
\* later IsInBackoff(h) waits as well
HostStuck(h) ==
    \E j \in 1..Len(tasks) :
        tasks[j].pc = "blocked" /\ HostOf(tasks[j].item.url) = h

\* result.StatusCode = resp.StatusCode, where processURL gets that far
StatusOf(o) ==
    CASE o = "ok" -> 200
      [] o = "non-200 status" -> 404
      [] o = "body read failed" -> 200
      [] OTHER -> 0

\* processURL up to the body read: the robots gate, then the retry loop,
\* the status check and io.ReadAll; or a fault on the way
TaskFetch(k) ==
    LET t == tasks[k]
        u == t.item.url
        h == HostOf(u)
    IN  /\ t.pc = "run"
        /\ \E o \in Outcomes(u), f \in RobotsFetchOutcomes(h) :
            LET gate == IF IgnoreRobots
                        THEN [allowed |-> TRUE, cache |-> robotsCache,
                              fetched |-> FALSE]
                        ELSE isAllowedByRobots(u, f)
                known == RobotsURL(u) \in gate.cache
            IN  IF o = "panic"
                THEN /\ tasks' = [tasks EXCEPT ![k].pc = AfterPanic,
                                               ![k].panicked = TRUE]
                     /\ UNCHANGED robotsCache
                ELSE IF ~gate.allowed
                THEN /\ tasks' = [tasks EXCEPT
                                    ![k].pc = "save",
                                    ![k].err = "blocked by robots.txt",
                                    ![k].denied = TRUE]
                     /\ robotsCache' = gate.cache
                ELSE /\ tasks' = [tasks EXCEPT
                            ![k].pc = IF o = "retryable failure" \/ HostStuck(h)
                                      THEN "blocked"
                                      ELSE IF o = "ok" THEN "links"
                                      ELSE "save",
                            ![k].err = IF o \in {"ok", "retryable failure"}
                                          \/ HostStuck(h)
                                       THEN "" ELSE o,
                            ![k].status = IF HostStuck(h) THEN 0
                                          ELSE StatusOf(o),
                            ![k].denied = ~IgnoreRobots /\ known
                                          /\ u \in Disallowed(h),
                            ![k].requested = TRUE]
                     /\ robotsCache' = gate.cache
        /\ UNCHANGED <<fvars, now, obsvars, mainPc, cur, sem, wg, cDiscovered,
                       cProcessed, cErrors, panicCount, shutdown, storageOpen,
                       sink, results>>
        /\ UNCHANGED <<rvars, seeds, pvars>>

\* c.discovered.Add(1) follows every c.frontier.Add, whatever it returned
CountLink(ok) == 1

\* one round of: for _, link := range links { if c.shouldCrawl(...) {
\*     c.frontier.Add(...); c.discovered.Add(1) } }
TaskLink(k) ==
    LET t == tasks[k]
        ls == Links(t.item.url)
    IN  /\ t.pc = "links"
        /\ t.li <= Len(ls)
        /\ IF shouldCrawl(ls[t.li], t.item.url)
           THEN LET it == [url |-> ls[t.li], depth |-> t.item.depth + 1]
                IN  /\ Add(it)
                    /\ cDiscovered' = cDiscovered + CountLink(AddResult(it).ok)
           ELSE UNCHANGED <<fvars, obsvars, cDiscovered>>
        /\ tasks' = [tasks EXCEPT ![k].li = t.li + 1]
        /\ UNCHANGED <<now, mainPc, cur, sem, wg, cProcessed, cErrors,
                       panicCount, shutdown, storageOpen, sink, results>>
        /\ UNCHANGED rvars
        /\ UNCHANGED xvars

\* the link loop is over
TaskLinksDone(k) ==
    /\ tasks[k].pc = "links"
    /\ tasks[k].li > Len(Links(tasks[k].item.url))
    /\ tasks' = [tasks EXCEPT ![k].pc = "save"]
    /\ UNCHANGED <<fvars, now, obsvars, mainPc, cur, sem, wg, cDiscovered,
                   cProcessed, cErrors, panicCount, shutdown, storageOpen,
                   sink, results>>
    /\ UNCHANGED rvars
    /\ UNCHANGED xvars

\* an early return: result.Error = ...; c.saveResult(result);
\* c.errors.Add(1); return -- or the last lines: c.saveResult(result)
TaskSave(k) ==
    LET t == tasks[k]
    IN  /\ t.pc = "save"
        /\ sink' = SaveResult(t.item.url, t.err, t.status)
        /\ cErrors' = IF t.err # "" THEN cErrors + 1 ELSE cErrors
        /\ tasks' = [tasks EXCEPT ![k].pc = IF t.err # "" THEN "release"
                                            ELSE "mark",
                                  ![k].errs = IF t.err # "" THEN @ + 1 ELSE @]
        /\ UNCHANGED <<fvars, now, obsvars, mainPc, cur, sem, wg, cDiscovered,
                       cProcessed, panicCount, shutdown, storageOpen, results>>
        /\ UNCHANGED rvars
        /\ UNCHANGED xvars

\* c.frontier.MarkProcessed(); c.processed.Add(1)
TaskMark(k) ==
    /\ tasks[k].pc = "mark"
    /\ MarkProcessed
    /\ cProcessed' = cProcessed + 1
    /\ tasks' = [tasks EXCEPT ![k].pc = "release"]
    /\ UNCHANGED <<now, obsvars, mainPc, cur, sem, wg, cDiscovered, cErrors,
                   panicCount, shutdown, storageOpen, sink, results>>
    /\ UNCHANGED rvars
    /\ UNCHANGED xvars

\* deferred: func() { <-c.sem }()
TaskRelease(k) ==
    /\ tasks[k].pc = "release"
    /\ sem > 0
    /\ sem' = sem - 1
    /\ tasks' = [tasks EXCEPT ![k].pc = "wgdone", ![k].released = @ + 1]
    /\ UNCHANGED <<fvars, now, obsvars, mainPc, cur, wg, cDiscovered,
                   cProcessed, cErrors, panicCount, shutdown, storageOpen,
                   sink, results>>
    /\ UNCHANGED rvars
    /\ UNCHANGED xvars

\* deferred: c.wg.Done(); a panicking goroutine then reaches the recover()
TaskDone(k) ==
    /\ tasks[k].pc = "wgdone"
    /\ wg' = wg - 1
    /\ tasks' = [tasks EXCEPT ![k].pc = IF tasks[k].panicked THEN "recover"
                                        ELSE "finished",
                              ![k].done = @ + 1]
    /\ UNCHANGED <<fvars, now, obsvars, mainPc, cur, sem, cDiscovered,
                   cProcessed, cErrors, panicCount, shutdown, storageOpen,
                   sink, results>>
    /\ UNCHANGED rvars
    /\ UNCHANGED xvars

\* ProcessURLSafely's deferred handler: recover(); sp.panicCount.Add(1);
\* sp.c.storage.SaveResult(result)
TaskRecover(k) ==
    /\ tasks[k].pc = "recover"
    /\ panicCount' = panicCount + 1
    /\ sink' = SaveResult(tasks[k].item.url, "panic during processing", 0)
    /\ tasks' = [tasks EXCEPT ![k].pc = "recovered"]
    /\ UNCHANGED <<fvars, now, obsvars, mainPc, cur, sem, wg, cDiscovered,
                   cProcessed, cErrors, shutdown, storageOpen, results>>
    /\ UNCHANGED rvars
    /\ UNCHANGED xvars

\* the handler goes on: sp.c.errors.Add(1); sp.c.frontier.MarkProcessed()
TaskRecovered(k) ==
    /\ tasks[k].pc = "recovered"
    /\ cErrors' = cErrors + 1
    /\ MarkProcessed
    /\ tasks' = [tasks EXCEPT ![k].pc = "finished", ![k].errs = @ + 1]
    /\ UNCHANGED <<now, obsvars, mainPc, cur, sem, wg, cDiscovered,
                   cProcessed, panicCount, shutdown, storageOpen, sink,
                   results>>
    /\ UNCHANGED rvars
    /\ UNCHANGED xvars

TaskIds == 1..Len(tasks)

Fetch == \E k \in TaskIds : TaskFetch(k)
Link == \E k \in TaskIds : TaskLink(k)
LinksDone == \E k \in TaskIds : TaskLinksDone(k)
Save == \E k \in TaskIds : TaskSave(k)
Mark == \E k \in TaskIds : TaskMark(k)
Release == \E k \in TaskIds : TaskRelease(k)
Done == \E k \in TaskIds : TaskDone(k)
Recover == \E k \in TaskIds : TaskRecover(k)
Recovered == \E k \in TaskIds : TaskRecovered(k)

NextCrawl ==
    \/ MainNew
    \/ MainLoop
    \/ MainGrace
    \/ MainNext
    \/ MainSpawn
    \/ MainWait
    \/ MainClose
    \/ Fetch
    \/ Link
    \/ LinksDone
    \/ Save
    \/ Mark
    \/ Release
    \/ Done
    \/ Recover
    \/ Recovered

Init == InitFrontier

Spec == Init /\ [][NextCrawl]_vars

(***************************************************************************)
(* SpecShutdown: Crawl while another goroutine may call Crawler.Close(),   *)
(* the one place that sets the shutdown flag.                              *)
(***************************************************************************)
\* the most goroutines Crawl can spawn: one per URL the frontier accepts
MaxTasks == Cardinality({u \in URLs : Parses(u)})

\* Crawler.Close() called while Crawl() runs: c.shutdown.Store(true);
\* c.cancel(); c.storage.Close()
ExternalClose ==
    /\ mainPc \in {"loop", "grace", "next", "acquire", "wait"}
    /\ ~shutdown
    /\ shutdown' = TRUE
    /\ storageOpen' = FALSE
    /\ UNCHANGED <<fvars, now, obsvars, mainPc, cur, tasks, sem, wg,
                   cDiscovered, cProcessed, cErrors, panicCount, sink,
                   results>>
    /\ UNCHANGED rvars
    /\ UNCHANGED xvars

NextShutdown == NextCrawl \/ ExternalClose

\* the goroutine running Crawl()
MainStep ==
    \/ MainNew
    \/ MainLoop
    \/ MainGrace
    \/ MainNext
    \/ MainSpawn
    \/ MainWait
    \/ MainClose

\* the k-th spawned goroutine
TaskStep(k) ==
    /\ k \in TaskIds
    /\ \/ TaskFetch(k)
       \/ TaskLink(k)
       \/ TaskLinksDone(k)
       \/ TaskSave(k)
       \/ TaskMark(k)
       \/ TaskRelease(k)
       \/ TaskDone(k)
       \/ TaskRecover(k)
       \/ TaskRecovered(k)

\* the scheduler runs every goroutine that can take a step
FairCrawl ==
    /\ WF_vars(MainStep)
    /\ \A k \in 1..MaxTasks : WF_vars(TaskStep(k))

SpecShutdown == Init /\ [][NextShutdown]_vars /\ FairCrawl

(***************************************************************************)
(* SpecRetry: one worker in the retry loop of processURL for RetryURL,     *)
(* and another goroutine that calls the handler's methods directly.        *)
(***************************************************************************)
InitRetry ==
    /\ InitFrontierVars
    /\ InitCrawler
    /\ hostRetries = [h \in RetryHosts |-> NewRetryState]
    /\ gs = [g \in Goroutines |->
                IF g = "worker" THEN [IdleG EXCEPT !.pc = "start"] ELSE IdleG]
    /\ script \in Scripts
    /\ requests = <<>>
    /\ maxRetries \in MaxRetriesValues
    /\ recLog = [h \in RetryHosts |-> <<>>]
    /\ rResult = NoRResult
    /\ probe = NoProbe
    /\ InitNoSeeding

\* maxRetries := c.config.MaxRetries; if maxRetries <= 0 { maxRetries = 3 }
EffectiveMaxRetries(n) == IF n <= 0 THEN 3 ELSE n

\* for ...; attempt <= maxRetries; ... { c.retryHandler.IsInBackoff(host)
LoopHead(w) ==
    IF w.attempt <= w.mr
    THEN Call(w, "IsInBackoff", w.host, 0, 0, "request")
    ELSE [w EXCEPT !.pc = "exit"]

\* after RecordFailure: if attempt < maxRetries {
\*     time.Sleep(c.retryHandler.GetBackoff(host, attempt)); continue }; break
AfterFailure(w) ==
    IF w.attempt < w.mr
    THEN Call(w, "GetBackoff", w.host, w.attempt, 0, "continue")
    ELSE [w EXCEPT !.pc = "exit"]

\* the worker enters the retry loop
WorkerStart ==
    /\ gs["worker"].pc = "start"
    /\ gs' = [gs EXCEPT !["worker"] =
                LoopHead([@ EXCEPT !.mr = EffectiveMaxRetries(maxRetries),
                                   !.attempt = 0,
                                   !.host = HostOf(RetryURL)])]
    /\ UNCHANGED <<fvars, now, obsvars, evars, xvars, hostRetries, script, requests,
                   maxRetries, recLog, rResult, probe>>

\* state.mu.Lock()
Lock(g) ==
    /\ gs[g].pc = "lock"
    /\ CanLock(hostRetries[getOrCreateState(gs[g].host)].mu, g)
    /\ hostRetries' = [hostRetries EXCEPT
                          ![getOrCreateState(gs[g].host)].mu = g]
    /\ gs' = [gs EXCEPT ![g].pc = "locked"]
    /\ UNCHANGED <<fvars, now, obsvars, evars, xvars, script, requests, maxRetries,
                   recLog, rResult, probe>>

\* the outcome the handler recorded last for host h ("" when none)
LastRecorded(h) ==
    IF recLog[h] = <<>> THEN "" ELSE recLog[h][Len(recLog[h])]

\* RetryHandler.IsInBackoff, and the worker's
\* if inBackoff && attempt > 0 { time.Sleep(duration) }
IsInBackoffBody(g) ==
    LET w == gs[g]
        key == getOrCreateState(w.host)
        st == hostRetries[key]
        inBackoff == Before(now, st.backoffUntil)
        duration == IF inBackoff THEN st.backoffUntil - now ELSE 0
    IN  /\ w.pc = "locked"
        /\ w.fn = "IsInBackoff"
        /\ hostRetries' = [hostRetries EXCEPT ![key].mu = ""]
        /\ gs' = [gs EXCEPT ![g].pc = IF UnlockFatal(st.mu) THEN "fatal"
                                      ELSE w.ret]
        /\ now' = IF inBackoff /\ w.attempt > 0 THEN st.backoffUntil ELSE now
        /\ probe' = IF w.ret = "idle"
                    THEN [NoProbe EXCEPT !.fn = "IsInBackoff",
                                         !.host = w.host,
                                         !.inBackoff = inBackoff,
                                         !.value = duration,
                                         !.last = LastRecorded(w.host)]
                    ELSE probe
        /\ UNCHANGED <<fvars, obsvars, evars, xvars, script, requests,
                       maxRetries, recLog, rResult>>

\* RetryHandler.RecordSuccess
RecordSuccessBody(g) ==
    LET w == gs[g]
        key == getOrCreateState(w.host)
        st == hostRetries[key]
    IN  /\ w.pc = "locked"
        /\ w.fn = "RecordSuccess"
        /\ hostRetries' = [hostRetries EXCEPT
                              ![key] = [st EXCEPT !.mu = "",
                                                  !.consecutiveFails = 0,
                                                  !.backoffUntil = ZeroTime]]
        /\ recLog' = [recLog EXCEPT ![w.host] = Append(@, "success")]
        /\ gs' = [gs EXCEPT ![g].pc = IF UnlockFatal(st.mu) THEN "fatal"
                                      ELSE w.ret]
        /\ probe' = IF w.ret = "idle"
                    THEN [NoProbe EXCEPT !.fn = "RecordSuccess",
                                         !.host = w.host,
                                         !.last = "success"]
                    ELSE probe
        /\ UNCHANGED <<fvars, now, obsvars, evars, xvars, script, requests,
                       maxRetries, rResult>>

\* RetryHandler.RecordFailure up to its call of rh.GetBackoff, which it
\* makes while it holds state.mu
RecordFailureBody(g) ==
    LET w == gs[g]
        key == getOrCreateState(w.host)
        st == hostRetries[key]
    IN  /\ w.pc = "locked"
        /\ w.fn = "RecordFailure"
        /\ hostRetries' = [hostRetries EXCEPT
                              ![key].consecutiveFails = @ + 1,
                              ![key].lastFailTime = now]
        /\ recLog' = [recLog EXCEPT ![w.host] = Append(@, "failure")]
        /\ gs' = [gs EXCEPT ![g] = [w EXCEPT !.pc = "lock",
                                             !.fn = "GetBackoff",
                                             !.outer = TRUE,
                                             !.k = st.consecutiveFails + 1]]
        /\ UNCHANGED <<fvars, now, obsvars, evars, xvars, script, requests,
                       maxRetries, rResult, probe>>

\* RetryHandler.GetBackoff, and what its caller does with the value: the
\* rest of RecordFailure, the worker's time.Sleep and continue, or nothing
GetBackoffBody(g) ==
    LET w == gs[g]
        key == getOrCreateState(w.host)
        st == hostRetries[key]
        inBackoff == Before(now, st.backoffUntil)
        base == BackoffBase(w.k)
    IN  /\ w.pc = "locked"
        /\ w.fn = "GetBackoff"
        /\ \E m \in JitterSamples :
            LET value == IF inBackoff THEN st.backoffUntil - now
                         ELSE base + Jitter(base, m)
                \* the deferred state.mu.Unlock() of GetBackoff
                mu1 == ""
            IN  IF w.outer
                THEN \* back in RecordFailure: backoffUntil, deferred Unlock
                     /\ hostRetries' = [hostRetries EXCEPT
                            ![key].mu = "",
                            ![key].backoffUntil =
                                now + (IF w.status = 429 THEN value * 2
                                       ELSE value)]
                     /\ gs' = [gs EXCEPT ![g] =
                                 IF UnlockFatal(mu1)
                                 THEN [w EXCEPT !.pc = "fatal"]
                                 ELSE IF w.ret = "afterFailure"
                                 THEN AfterFailure([w EXCEPT !.outer = FALSE])
                                 ELSE [w EXCEPT !.pc = w.ret,
                                                !.outer = FALSE]]
                     /\ probe' = IF w.ret = "idle" /\ ~UnlockFatal(mu1)
                                 THEN [NoProbe EXCEPT
                                         !.fn = "RecordFailure",
                                         !.host = w.host,
                                         !.status = w.status,
                                         !.k = w.k, !.value = value]
                                 ELSE probe
                     /\ UNCHANGED now
                ELSE /\ hostRetries' = [hostRetries EXCEPT ![key].mu = mu1]
                     /\ IF w.ret = "continue"
                        THEN /\ now' = now + value
                             /\ gs' = [gs EXCEPT ![g] =
                                         LoopHead([w EXCEPT !.attempt = @ + 1])]
                             /\ UNCHANGED probe
                        ELSE /\ gs' = [gs EXCEPT ![g].pc =
                                         IF UnlockFatal(st.mu) THEN "fatal"
                                         ELSE w.ret]
                             /\ probe' = [NoProbe EXCEPT
                                            !.fn = "GetBackoff",
                                            !.host = w.host, !.k = w.k,
                                            !.base = base, !.value = value,
                                            !.inBackoff = inBackoff]
                             /\ UNCHANGED now
        /\ UNCHANGED <<fvars, obsvars, evars, xvars, script, requests, maxRetries,
                       recLog, rResult>>

\* resp, err = c.makeRequest(...) and the branches on its result, up to the
\* call of RecordSuccess or RecordFailure or the break
WorkerRequest ==
    LET w == gs["worker"]
        a == IF script = <<>> THEN Answer(200) ELSE Head(script)
        w1 == [w EXCEPT !.resp = a]
    IN  /\ w.pc = "request"
        /\ requests' = Append(requests, a)
        /\ script' = IF script = <<>> THEN script ELSE Tail(script)
        /\ gs' = [gs EXCEPT !["worker"] =
                    IF ~a.err
                    THEN IF a.status = 200
                         THEN Call(w1, "RecordSuccess", w.host, 0, 0, "exit")
                         ELSE IF ShouldRetry(a.status, FALSE)
                         THEN Call(w1, "RecordFailure", w.host, 0, a.status,
                                   "afterFailure")
                         ELSE [w1 EXCEPT !.pc = "exit"]
                    ELSE IF ShouldRetry(0, TRUE)
                         THEN Call(w1, "RecordFailure", w.host, 0, 0,
                                   "afterFailure")
                         ELSE [w1 EXCEPT !.pc = "exit"]]
        /\ UNCHANGED <<fvars, now, obsvars, evars, xvars, hostRetries, maxRetries,
                       recLog, rResult, probe>>

\* after the loop: the early returns on err and on a non-200 status, or
\* result.StatusCode = 200; the record is saved once
WorkerFinish ==
    LET w == gs["worker"]
    IN  /\ w.pc = "exit"
        /\ rResult' = [status |-> IF w.resp.err THEN 0 ELSE w.resp.status,
                       error |-> IF w.resp.err THEN "request failed"
                                 ELSE IF w.resp.status # 200
                                 THEN "non-200 status" ELSE "",
                       written |-> rResult.written + 1]
        /\ gs' = [gs EXCEPT !["worker"].pc = "done"]
        /\ UNCHANGED <<fvars, now, obsvars, evars, xvars, hostRetries, script,
                       requests, maxRetries, recLog, probe>>

\* another goroutine calls rh.GetBackoff(host, attempt)
ProbeGetBackoff ==
    /\ gs["prober"].pc = "idle"
    /\ \E h \in RetryHosts, k \in 0..MaxAttempt :
          gs' = [gs EXCEPT !["prober"] = Call(IdleG, "GetBackoff", h, k, 0,
                                              "idle")]
    /\ UNCHANGED <<fvars, now, obsvars, evars, xvars, hostRetries, script, requests,
                   maxRetries, recLog, rResult, probe>>

\* another goroutine calls rh.ShouldRetry(statusCode, err)
ProbeShouldRetry ==
    /\ gs["prober"].pc = "idle"
    /\ \E s \in Statuses, e \in BOOLEAN :
          probe' = [NoProbe EXCEPT !.fn = "ShouldRetry", !.status = s,
                                   !.err = e, !.retry = ShouldRetry(s, e)]
    /\ UNCHANGED <<fvars, now, obsvars, evars, xvars, hostRetries, gs, script,
                   requests, maxRetries, recLog, rResult>>

LockStep == \E g \in Goroutines : Lock(g)
IsInBackoffStep == \E g \in Goroutines : IsInBackoffBody(g)
RecordSuccessStep == \E g \in Goroutines : RecordSuccessBody(g)
RecordFailureStep == \E g \in Goroutines : RecordFailureBody(g)
GetBackoffStep == \E g \in Goroutines : GetBackoffBody(g)

NextRetry ==
    \/ WorkerStart
    \/ WorkerRequest
    \/ WorkerFinish
    \/ LockStep
    \/ IsInBackoffStep
    \/ RecordSuccessStep
    \/ RecordFailureStep
    \/ GetBackoffStep
    \/ ProbeGetBackoff
    \/ ProbeShouldRetry

\* every goroutine that can run is scheduled; a goroutine waiting for a
\* mutex gets it once it is free often enough
FairRetry ==
    /\ WF_vars(WorkerStart)
    /\ WF_vars(WorkerRequest)
    /\ WF_vars(WorkerFinish)
    /\ \A g \in Goroutines :
          /\ SF_vars(Lock(g))
          /\ WF_vars(IsInBackoffBody(g))
          /\ WF_vars(RecordSuccessBody(g))
          /\ WF_vars(RecordFailureBody(g))
          /\ WF_vars(GetBackoffBody(g))

SpecRetry == InitRetry /\ [][NextRetry]_vars /\ FairRetry

(***************************************************************************)
(* SpecHandler: two goroutines that call the methods of one RetryHandler   *)
(* directly, on any host, in any order.                                    *)
(***************************************************************************)
\* the attempt arguments of direct GetBackoff calls
AttemptsAsked == {0, MaxAttempt}

InitHandler ==
    /\ InitFrontierVars
    /\ InitCrawler
    /\ InitNoRetry
    /\ InitNoSeeding

\* g calls rh.IsInBackoff(host)
CallIsInBackoff(g) ==
    /\ gs[g].pc = "idle"
    /\ \E h \in RetryHosts :
          gs' = [gs EXCEPT ![g] = Call(IdleG, "IsInBackoff", h, 0, 0, "idle")]
    /\ UNCHANGED <<fvars, now, obsvars, evars, xvars, hostRetries, script,
                   requests, maxRetries, recLog, rResult, probe>>

\* g calls rh.RecordSuccess(host)
CallRecordSuccess(g) ==
    /\ gs[g].pc = "idle"
    /\ \E h \in RetryHosts :
          /\ Len(recLog[h]) < MaxRecords
          /\ gs' = [gs EXCEPT ![g] = Call(IdleG, "RecordSuccess", h, 0, 0,
                                          "idle")]
    /\ UNCHANGED <<fvars, now, obsvars, evars, xvars, hostRetries, script,
                   requests, maxRetries, recLog, rResult, probe>>

\* g calls rh.RecordFailure(host, statusCode)
CallRecordFailure(g) ==
    /\ gs[g].pc = "idle"
    /\ \E h \in RetryHosts, s \in FailureStatuses :
          /\ Len(recLog[h]) < MaxRecords
          /\ gs' = [gs EXCEPT ![g] = Call(IdleG, "RecordFailure", h, 0, s,
                                          "idle")]
    /\ UNCHANGED <<fvars, now, obsvars, evars, xvars, hostRetries, script,
                   requests, maxRetries, recLog, rResult, probe>>

\* g calls rh.GetBackoff(host, attempt)
CallGetBackoff(g) ==
    /\ gs[g].pc = "idle"
    /\ \E h \in RetryHosts, k \in AttemptsAsked :
          gs' = [gs EXCEPT ![g] = Call(IdleG, "GetBackoff", h, k, 0, "idle")]
    /\ UNCHANGED <<fvars, now, obsvars, evars, xvars, hostRetries, script,
                   requests, maxRetries, recLog, rResult, probe>>

CallIsInBackoffStep == \E g \in Goroutines : CallIsInBackoff(g)
CallRecordSuccessStep == \E g \in Goroutines : CallRecordSuccess(g)
CallRecordFailureStep == \E g \in Goroutines : CallRecordFailure(g)
CallGetBackoffStep == \E g \in Goroutines : CallGetBackoff(g)

NextHandler ==
    \/ CallIsInBackoffStep
    \/ CallRecordSuccessStep
    \/ CallRecordFailureStep
    \/ CallGetBackoffStep
    \/ LockStep
    \/ IsInBackoffStep
    \/ RecordSuccessStep
    \/ RecordFailureStep
    \/ GetBackoffStep

\* a goroutine inside a method runs on; one waiting for a mutex gets it
\* once it is free often enough
FairHandler ==
    \A g \in Goroutines :
        /\ SF_vars(Lock(g))
        /\ WF_vars(IsInBackoffBody(g))
        /\ WF_vars(RecordSuccessBody(g))
        /\ WF_vars(RecordFailureBody(g))
        /\ WF_vars(GetBackoffBody(g))

SpecHandler == InitHandler /\ [][NextHandler]_vars /\ FairHandler

(***************************************************************************)
(* SpecSeed: New() with a seeding strategy that returns URLs, followed by  *)
(* polls of the frontier.                                                  *)
(***************************************************************************)
\* longest list a seeding strategy returns
MaxSeeds == 2

\* the URLs the seeding strategies may return
SeedURLs == {"http://t/2", "http://sub.t/1", "http://other/x", "ftp://t/1",
             "http://xt/1", BadURL}

RECURSIVE SeqsUpTo(_, _)
SeqsUpTo(S, n) ==
    IF n = 0 THEN {<<>>}
    ELSE LET shorter == SeqsUpTo(S, n - 1)
         IN  shorter \cup {Append(q, x) : q \in shorter, x \in S}

InitSeed ==
    /\ InitFrontierVars
    /\ InitCrawler
    /\ InitNoRetry
    /\ robotsCache = {}
    /\ seeds \in SeqsUpTo(SeedURLs, MaxSeeds)
    /\ InitNoCollaborators

\* runSeeding: for _, url := range urls {
\*     c.frontier.Add(types.URLItem{URL: url, Depth: 0}) }
SeedAdd ==
    /\ mainPc = "seeding"
    /\ seeds # <<>>
    /\ Add([url |-> Head(seeds), depth |-> 0])
    /\ seeds' = Tail(seeds)
    /\ mainPc' = IF Tail(seeds) = <<>> THEN "loop" ELSE "seeding"
    /\ UNCHANGED <<now, cur, tasks, sem, wg, cDiscovered, cProcessed, cErrors,
                   panicCount, shutdown, storageOpen, sink, results>>
    /\ UNCHANGED <<rvars, robotsCache, pvars>>

\* Crawl() polls the frontier
SeedNext ==
    /\ mainPc = "loop"
    /\ Next
    /\ UNCHANGED <<now, evars, rvars, xvars>>

NextSeed == MainNew \/ SeedAdd \/ SeedNext

SpecSeed == InitSeed /\ [][NextSeed]_vars

(***************************************************************************)
(* SpecParse: the pure functions of the scope filter and of the parser,    *)
(* called on the inputs of a bounded universe.                             *)
(***************************************************************************)
\* the calls of c.shouldCrawl(link, baseURL) a caller may make
ShouldCrawlCalls ==
    {[fn |-> "shouldCrawl", done |-> FALSE, link |-> link, base |-> base] :
        link \in AllURLs, base \in AllURLs \ {BadURL}}

\* c.shouldCrawl(link, baseURL) returns
ProbeShouldCrawl ==
    /\ probe.fn = "shouldCrawl"
    /\ ~probe.done
    /\ probe' = [fn |-> "shouldCrawl", done |-> TRUE, link |-> probe.link,
                 base |-> probe.base,
                 value |-> shouldCrawl(probe.link, probe.base)]
    /\ UNCHANGED <<fvars, now, obsvars, evars, xvars, hostRetries, gs, script,
                   requests, maxRetries, recLog, rResult>>

(***************************************************************************)
(* parser.normalizeURL and parser.removeTrackingParams.  A URL string is   *)
(* modelled by its written components; url.Parse and URL.String convert    *)
(* between the written and the parsed form.                                *)
(***************************************************************************)
\* longest query string of the universe, in parameters
MaxParams == 2

\* "": the string normalizeURL returns for a rejected href
NoURL == [scheme |-> "", opaque |-> "", host |-> "", path |-> "",
          query |-> <<>>, fq |-> FALSE, frag |-> ""]

\* key=value as written in a query string
QueryPairs ==
    {[k |-> "z", v |-> "1"], [k |-> "a", v |-> "2"], [k |-> "a", v |-> "x%20y"],
     [k |-> "utm_source", v |-> "1"], [k |-> "gclid", v |-> "%zz"],
     [k |-> "b", v |-> "%zz"]}
Queries == SeqsUpTo(QueryPairs, MaxParams)

\* the hrefs of the universe: opaque ones, fragments, and hierarchical ones
\* with or without scheme and host, with absolute or empty path
Hrefs ==
    {NoURL}
    \cup {[NoURL EXCEPT !.scheme = s, !.opaque = "x"] :
            s \in {"mailto", "MAILTO", "javascript", "tel"}}
    \cup {[NoURL EXCEPT !.frag = "top"]}
    \cup {[NoURL EXCEPT !.scheme = "http", !.host = "t", !.path = "/a",
                        !.fq = TRUE]}
    \cup {[scheme |-> sh[1], opaque |-> "", host |-> sh[2], path |-> p,
           query |-> q, fq |-> FALSE, frag |-> f] :
            sh \in {<<"", "">>, <<"", "t">>, <<"http", "t">>, <<"HTTP", "t">>},
            p \in {"", "/a"}, q \in Queries, f \in {"", "top"}}

\* the base URLs: the pages the hrefs stand on
Bases ==
    {[NoURL EXCEPT !.scheme = "http", !.host = "t", !.path = "/b"],
     [NoURL EXCEPT !.scheme = "http", !.host = "t", !.path = "/b",
                   !.query = <<[k |-> "z", v |-> "1"]>>, !.frag = "sec"]}

\* strings.ToLower on scheme names
ToLower(s) ==
    CASE s = "MAILTO" -> "mailto"
      [] s = "HTTP" -> "http"
      [] OTHER -> s

\* url.Parse: the scheme is lower-cased, the rest is split into components
Parse(raw) == [raw EXCEPT !.scheme = ToLower(raw.scheme)]

\* URL.String: the components written out again
String(u) == u

\* href == ""
IsEmptyHref(raw) == raw = NoURL

\* strings.HasPrefix(href, "#")
HasPrefixHash(raw) ==
    /\ raw.frag # ""
    /\ [raw EXCEPT !.frag = ""] = NoURL

\* strings.HasPrefix(href, s + ":") for a scheme name s in lower case
HasPrefixScheme(raw, s) == raw.scheme = s

\* url.QueryUnescape; "%zz" is not an escape sequence
Unescapes(v) == v # "%zz"
Unescape(v) ==
    CASE v = "x%20y" -> "x y"
      [] v = "x+y" -> "x y"
      [] OTHER -> v
\* url.QueryEscape
Escape(v) ==
    CASE v = "x y" -> "x+y"
      [] OTHER -> v

\* u.Query(): the pairs that unescape, decoded, as a list per key; a pair
\* that does not unescape is left out
QueryOf(q) ==
    LET ok(p) == Unescapes(p.v)
        good == SelectSeq(q, ok)
    IN  [i \in 1..Len(good) |-> [k |-> good[i].k, v |-> Unescape(good[i].v)]]

\* the keys of the universe in the order sort.Strings gives them
SortedKeys == <<"a", "b", "gclid", "utm_source", "z">>

\* url.Values.Encode: the keys in sorted order, each with its values in
\* their order, escaped
RECURSIVE EncodeFrom(_, _)
EncodeFrom(i, q) ==
    IF i > Len(SortedKeys) THEN <<>>
    ELSE LET has(p) == p.k = SortedKeys[i]
             mine == SelectSeq(q, has)
         IN  [j \in 1..Len(mine) |->
                 [k |-> mine[j].k, v |-> Escape(mine[j].v)]]
             \o EncodeFrom(i + 1, q)
Encode(q) == EncodeFrom(1, q)

\* the trackingParams map of removeTrackingParams
TrackingParams ==
    {"utm_source", "utm_medium", "utm_campaign", "utm_term", "utm_content",
     "fbclid", "gclid", "msclkid", "mc_cid", "mc_eid"}

\* for param := range trackingParams { q.Del(param) }
DelTracking(q) ==
    LET keep(p) == p.k \notin TrackingParams
    IN  SelectSeq(q, keep)

\* parser.removeTrackingParams
removeTrackingParams(urlStr) ==
    LET u == Parse(urlStr)
        q == DelTracking(QueryOf(u.query))
    IN  String([u EXCEPT !.query = Encode(q)])

\* resolvePath(base, ref) on absolute or empty paths
resolvePath(basePath, refPath) == IF refPath = "" THEN basePath ELSE refPath

\* URL.ResolveReference
ResolveReference(base, ref) ==
    LET url == [ref EXCEPT !.scheme = IF ref.scheme = "" THEN base.scheme
                                      ELSE ref.scheme]
    IN  IF ref.scheme # "" \/ ref.host # ""
        THEN url
        ELSE IF ref.opaque # ""
        THEN [url EXCEPT !.host = "", !.path = ""]
        ELSE LET sameDoc == ref.path = "" /\ ~ref.fq /\ ref.query = <<>>
                 url2 == IF sameDoc
                         THEN [url EXCEPT !.query = base.query,
                                          !.frag = IF ref.frag = ""
                                                   THEN base.frag ELSE ref.frag]
                         ELSE url
             IN  IF ref.path = "" /\ base.opaque # ""
                 THEN [url2 EXCEPT !.opaque = base.opaque, !.host = "",
                                   !.path = ""]
                 ELSE [url2 EXCEPT !.host = base.host,
                                   !.path = resolvePath(base.path, ref.path)]

\* parser.normalizeURL
normalizeURL(href, baseURL) ==
    IF \/ IsEmptyHref(href)
       \/ HasPrefixHash(href)
       \/ HasPrefixScheme(href, "javascript")
       \/ HasPrefixScheme(href, "mailto")
       \/ HasPrefixScheme(href, "tel")
    THEN NoURL
    ELSE LET base == Parse(baseURL)
             u == Parse(href)
             resolved == [ResolveReference(base, u) EXCEPT !.frag = ""]
         IN  removeTrackingParams(String(resolved))

\* the calls of normalizeURL(href, baseURL) ExtractLinks may make
NormalizeCalls ==
    {[fn |-> "normalizeURL", done |-> FALSE, href |-> href, base |-> base] :
        href \in Hrefs, base \in Bases}

\* normalizeURL(href, baseURL) returns
ProbeNormalize ==
    /\ probe.fn = "normalizeURL"
    /\ ~probe.done
    /\ probe' = [fn |-> "normalizeURL", done |-> TRUE, href |-> probe.href,
                 base |-> probe.base,
                 out |-> normalizeURL(probe.href, probe.base)]
    /\ UNCHANGED <<fvars, now, obsvars, evars, xvars, hostRetries, gs, script,
                   requests, maxRetries, recLog, rResult>>

\* the calls of removeTrackingParams(urlStr)
RemoveTrackingCalls ==
    {[fn |-> "removeTrackingParams", done |-> FALSE, in |-> raw] :
        raw \in Hrefs}

\* removeTrackingParams(urlStr) returns
ProbeRemoveTracking ==
    /\ probe.fn = "removeTrackingParams"
    /\ ~probe.done
    /\ probe' = [fn |-> "removeTrackingParams", done |-> TRUE,
                 in |-> probe.in, out |-> removeTrackingParams(probe.in)]
    /\ UNCHANGED <<fvars, now, obsvars, evars, xvars, hostRetries, gs, script,
                   requests, maxRetries, recLog, rResult>>

NextParse == ProbeShouldCrawl \/ ProbeNormalize \/ ProbeRemoveTracking

InitParse ==
    /\ InitFrontierVars
    /\ InitCrawler
    /\ hostRetries = [h \in RetryHosts |-> NewRetryState]
    /\ gs = [g \in Goroutines |-> IdleG]
    /\ script = <<>>
    /\ requests = <<>>
    /\ maxRetries = DefaultMaxRetries
    /\ recLog = [h \in RetryHosts |-> <<>>]
    /\ rResult = NoRResult
    /\ probe \in ShouldCrawlCalls \cup NormalizeCalls \cup RemoveTrackingCalls
    /\ InitNoSeeding

SpecParse == InitParse /\ [][NextParse]_vars

(***************************************************************************)
(* SpecRobots: a caller checks URLs against the robots gate, one after the *)
(* other, while the servers answer the fetches of robots.txt as they like. *)
(***************************************************************************)
\* the URLs the gate is asked about
RobotsURLs ==
    {"http://sub.t/1", "http://sub.t/2", "http://t/1", "https://t/1", BadURL}

\* the statuses and bodies a server may answer a fetch of robots.txt with
RobotsStatuses == {200, 204, 403, 404, 500, 503}
RobotsBodies == {"rules", "unreadable", "unparsable"}
RobotsAnswers ==
    {FetchError} \cup {Response(st, b) : st \in RobotsStatuses,
                                        b \in RobotsBodies}

InitRobots ==
    /\ InitFrontierVars
    /\ InitCrawler
    /\ InitNoRetry
    /\ InitNoSeeding

\* c.isAllowedByRobots(u) returns; prev is what the last fetch for the
\* same key came to, over the checks of that key made in a row
CheckRobots ==
    /\ \E u \in RobotsURLs, f \in RobotsAnswers :
          LET r == isAllowedByRobots(u, f)
              again == probe.fn = "isAllowedByRobots"
                          /\ probe.key = RobotsURL(u)
          IN  /\ robotsCache' = r.cache
              /\ probe' = [fn |-> "isAllowedByRobots", url |-> u,
                           key |-> RobotsURL(u),
                           answer |-> IF r.fetched THEN f ELSE NoFetch,
                           prev |-> IF ~again THEN NoFetch
                                    ELSE IF probe.fetched THEN probe.answer
                                    ELSE probe.prev,
                           fetched |-> r.fetched,
                           allowed |-> r.allowed]
    /\ UNCHANGED <<fvars, now, obsvars, evars, seeds, hostRetries, gs, script,
                   requests, maxRetries, recLog, rResult, pvars>>

NextRobots == CheckRobots

SpecRobots == InitRobots /\ [][NextRobots]_vars

(***************************************************************************)
(* SpecConfig: NewFromConfig on a bounded universe of configurations.      *)
(***************************************************************************)
\* the types.Config values a caller may pass (Timeout in seconds)
Configs ==
    [StartURL : {"", StartURL},
     Workers : {-1, 0, 1, 1000, 1001},
     Timeout : {-1, 0, 30},
     DataDir : {"", "./data"},
     EnablePersonas : BOOLEAN,
     MaxPersonas : {0, 1001},
     MaxRetries : {-1, 0, 10, 11}]

validateConfig_NoUpper(config) ==
    IF config.StartURL = "" THEN "start URL is required"
    ELSE IF config.Workers <= 0 THEN "workers must be positive"
    ELSE IF config.Timeout <= 0 THEN "timeout must be positive"
    ELSE IF config.DataDir = "" THEN "data directory is required"
    ELSE IF config.EnablePersonas /\ ~(config.MaxPersonas <= 0)
            /\ config.MaxPersonas > 1000
    THEN "max personas too high (max 1000)"
    ELSE IF config.MaxRetries < 0 THEN "max retries cannot be negative"
    ELSE IF config.MaxRetries > 10 THEN "max retries too high (max 10)"
    ELSE ""
\* validateConfig: the error returned ("" for nil)
validateConfig(config) ==
    IF config.StartURL = "" THEN "start URL is required"
    ELSE IF config.Workers <= 0 THEN "workers must be positive"
    ELSE IF config.Workers > 1000 THEN "workers too high (max 1000)"
    ELSE IF config.Timeout <= 0 THEN "timeout must be positive"
    ELSE IF config.DataDir = "" THEN "data directory is required"
    ELSE IF config.EnablePersonas /\ ~(config.MaxPersonas <= 0)
            /\ config.MaxPersonas > 1000
    THEN "max personas too high (max 1000)"
    ELSE IF config.MaxRetries < 0 THEN "max retries cannot be negative"
    ELSE IF config.MaxRetries > 10 THEN "max retries too high (max 10)"
    ELSE ""

\* what New(config) or NewEnhanced(config) comes to on a valid
\* configuration: a crawler, or an error (the data directory or the sink
\* cannot be created, seeding fails)
NewOutcomes == {"crawler", "error"}

\* the calls of NewFromConfig a caller may make
ConfigCalls ==
    {[fn |-> "NewFromConfig", done |-> FALSE, config |-> c, err |-> "",
      crawler |-> FALSE] : c \in Configs}

\* NewFromConfig(config) returns
NewFromConfig ==
    /\ probe.fn = "NewFromConfig"
    /\ ~probe.done
    /\ LET err == validateConfig(probe.config)
       IN  IF err # ""
           THEN probe' = [probe EXCEPT !.done = TRUE,
                                       !.err = "invalid configuration",
                                       !.crawler = FALSE]
           ELSE \E o \in NewOutcomes :
                   probe' = [probe EXCEPT
                               !.done = TRUE,
                               !.err = IF o = "error" THEN "new failed"
                                       ELSE "",
                               !.crawler = (o = "crawler")]
    /\ UNCHANGED <<fvars, now, obsvars, evars, xvars, hostRetries, gs, script,
                   requests, maxRetries, recLog, rResult>>

NextConfig == NewFromConfig

InitConfig ==
    /\ InitFrontierVars
    /\ InitCrawler
    /\ hostRetries = [h \in RetryHosts |-> NewRetryState]
    /\ gs = [g \in Goroutines |-> IdleG]
    /\ script = <<>>
    /\ requests = <<>>
    /\ maxRetries = DefaultMaxRetries
    /\ recLog = [h \in RetryHosts |-> <<>>]
    /\ rResult = NoRResult
    /\ probe \in ConfigCalls
    /\ InitNoSeeding

SpecConfig == InitConfig /\ [][NextConfig]_vars

(***************************************************************************)
(* Claims about the frontier (checked under SpecFrontier).                 *)
(***************************************************************************)
\* how often URL u was appended to a host queue so far
AppendCount(u) ==
    Cardinality({p \in {<<h, k>> : h \in HostNames, k \in 1..Cardinality(URLs)} :
                    /\ p[2] <= Len(addLog[p[1]])
                    /\ addLog[p[1]][p[2]].url = u})

\* C1: no URL is appended to a host queue more than once, and an Add of a
\* URL the seen-set already holds returns false and changes no queue, ring
\* or counter.
C1_AddDedup ==
    /\ \A u \in URLs : AppendCount(u) <= 1
    /\ lastAdd.seenBefore => (~lastAdd.ok /\ lastAdd.same)

\* a URL that sits in a queue log was handed to Add a second time
C1_Witness ==
    /\ lastAdd.seenBefore
    /\ AppendCount(lastAdd.url) = 1

QueueOf(h) == IF h \in DOMAIN queues THEN queues[h].urls ELSE <<>>

\* C2: per host, what Next returned so far followed by what is still queued
\* is exactly the sequence of successful Adds for that host: Next returns
\* the items of a host in the order they were added.
C2_PerHostFifo ==
    \A h \in HostNames :
        /\ addLog[h] = retLog[h] \o QueueOf(h)
        /\ \A k \in 1..Len(retLog[h]) : HostOf(retLog[h][k].url) = h

\* two items of one host were returned while an Add had come in between
C2_Witness ==
    \E h \in HostNames : Len(retLog[h]) >= 2

\* C3: two successive Next calls that returned an item of the same host
\* are at least the politeness interval apart on the clock.
C3_Politeness ==
    (lastNext.ok /\ lastNext.prev # -1)
        => prevDeq[lastNext.host] - lastNext.prev >= PolitenessMs

\* a host was served a second time
C3_Witness ==
    /\ lastNext.ok
    /\ lastNext.prev # -1
    /\ prevDeq[lastNext.host] - lastNext.prev = PolitenessMs

RECURSIVE SumRecords(_)
SumRecords(us) ==
    IF us = {} THEN 0
    ELSE LET u == CHOOSE x \in us : TRUE
         IN  Len(sink[u]) + SumRecords(us \ {u})
\* number of records the sink holds
TotalRecords == SumRecords(URLs)

RECURSIVE SumReturned(_)
SumReturned(hs) ==
    IF hs = {} THEN 0
    ELSE LET h == CHOOSE x \in hs : TRUE
         IN  Len(retLog[h]) + SumReturned(hs \ {h})
\* number of items Next handed to the main loop
Dequeued == SumReturned(HostNames)

\* C5: every dequeued item ends with exactly one record written to the sink
\* and never has more than one, whatever the outcome of its processing.
C5_OneRecordPerItem ==
    \A k \in TaskIds :
        /\ Len(sink[tasks[k].item.url]) <= 1
        /\ tasks[k].pc = "finished" => Len(sink[tasks[k].item.url]) = 1

\* C6: when Crawl() has returned, processed + errors of the Results equals
\* the number of items dequeued, and the sink holds that many records.
C6_CounterClosure ==
    mainPc = "returned" =>
        /\ results.Processed + results.Errors = Dequeued
        /\ TotalRecords = Dequeued

\* C7: when Crawl() has returned, Results.Discovered is the number of unique
\* URLs ever added to the frontier, the seed included.
C7_DiscoveredUnique ==
    mainPc = "returned" =>
        results.Discovered = Cardinality({u \in URLs : AppendCount(u) >= 1})

\* C8: when Crawl() has returned without a shutdown request, every URL
\* successfully added to the frontier has been dequeued.
C8_DrainedAtReturn ==
    mainPc = "returned" => \A h \in HostNames : retLog[h] = addLog[h]

\* the tasks that hold a semaphore permit
HoldingPermit == {k \in TaskIds : tasks[k].released = 0}

\* C9: at most Workers spawned tasks have not yet released their permit.
C9_WorkerBound == Cardinality(HoldingPermit) <= Workers

\* every permit is taken and the main loop stands at the semaphore with
\* one more item in hand
C9_Witness ==
    /\ Cardinality(HoldingPermit) = Workers
    /\ mainPc = "acquire"

\* C10: a task that panicked releases its permit and its wait-group slot
\* exactly once (both before its recovery handler runs), no permit and no
\* slot is leaked, and the main loop is not stopped by it.
C10_PanicReleasesOnce ==
    /\ \A k \in TaskIds :
          tasks[k].panicked =>
              /\ tasks[k].released <= 1
              /\ tasks[k].done <= 1
              /\ tasks[k].pc \in {"recover", "recovered", "finished"}
                    => (tasks[k].released = 1 /\ tasks[k].done = 1)
    /\ sem = Cardinality(HoldingPermit)
    /\ wg = Cardinality({k \in TaskIds : tasks[k].done = 0})

\* a task panicked, was recovered, and the main loop spawned a later task
C10_Witness ==
    \E k \in TaskIds :
        /\ tasks[k].panicked
        /\ tasks[k].pc = "finished"
        /\ Len(tasks) > k
        /\ tasks[Len(tasks)].pc = "run"

(***************************************************************************)
(* Claims about the retry handler and the retry loop (SpecRetry).          *)
(***************************************************************************)
RetryableStatuses == {429, 500, 502, 503, 504}

\* C12: ShouldRetry(status, err) is true exactly when err is non-nil or the
\* status is one of 429, 500, 502, 503, 504.
C12_ShouldRetryExact ==
    probe.fn = "ShouldRetry" =>
        (probe.retry <=> (probe.err \/ probe.status \in RetryableStatuses))

\* ShouldRetry was asked about 504 without an error
C12_Witness ==
    /\ probe.fn = "ShouldRetry"
    /\ probe.status = 504
    /\ ~probe.err
    /\ probe.retry

\* C13: with max-retries = 3 and a server answering 503, 503, 200 the worker
\* eventually completes after exactly 3 requests, with two failures and then
\* a success recorded for the host and one record of status 200 written.
C13_RetryCompletes ==
    (maxRetries = 3 /\ requests \o script = Script503)
        ~> /\ gs["worker"].pc = "done"
           /\ Len(requests) = 3
           /\ recLog[HostOf(RetryURL)] = <<"failure", "failure", "success">>
           /\ rResult = [status |-> 200, error |-> "", written |-> 1]

\* C14: the configured max-retries is the bound the retry loop uses; with
\* max-retries = 0 the URL is requested once and no failure is retried.
C14_ConfiguredBoundUsed ==
    gs["worker"].pc # "start" =>
        /\ gs["worker"].mr = maxRetries
        /\ maxRetries = 0 => Len(requests) <= 1

Min(a, b) == IF a < b THEN a ELSE b

\* C20: for a host not in backoff the backoff GetBackoff computes before
\* jitter for attempt k is min(MaxBackoff, InitialBackoff * BackoffFactor^k),
\* which is non-decreasing in k and saturates at MaxBackoff.
C20_BackoffFormula ==
    (probe.fn = "GetBackoff" /\ ~probe.inBackoff) =>
        /\ probe.base = Min(MaxBackoff,
                            InitialBackoff * (BackoffFactor ^ probe.k))
        /\ probe.base <= MaxBackoff
        /\ probe.k > 0 => BackoffBase(probe.k - 1) <= probe.base

\* GetBackoff was asked about an attempt at which the backoff is capped
C20_Witness ==
    /\ probe.fn = "GetBackoff"
    /\ ~probe.inBackoff
    /\ probe.k = 5
    /\ probe.base = MaxBackoff

(***************************************************************************)
(* Claims about shutdown (SpecShutdown).                                   *)
(***************************************************************************)
\* C11: once the shutdown flag is set Crawl() eventually returns, and when
\* it has returned every semaphore permit is released and the sink closed.
C11_ShutdownReturns ==
    /\ [](mainPc = "returned" => (sem = 0 /\ ~storageOpen))
    /\ (shutdown ~> mainPc = "returned")

(***************************************************************************)
(* Claims about the robots gate (Spec).                                    *)
(***************************************************************************)
\* C15: with robots checking on, an item whose path the origin's policy (as
\* the crawler holds or fetches it) disallows is never requested; it yields
\* one record with error "blocked by robots.txt" and status 0, and the
\* error counter is incremented once for it.
C15_RobotsBlocks ==
    \A k \in TaskIds :
        LET t == tasks[k]
        IN  t.denied =>
                /\ ~t.requested
                /\ t.errs <= 1
                /\ t.pc \in {"release", "wgdone", "finished"} =>
                      /\ t.errs = 1
                      /\ sink[t.item.url] =
                            <<[error |-> "blocked by robots.txt", status |-> 0]>>

\* a disallowed item went through the gate and its goroutine has finished
C15_Witness ==
    \E k \in TaskIds :
        /\ tasks[k].denied
        /\ tasks[k].pc = "finished"
        /\ cErrors >= 1

(***************************************************************************)
(* Claims about the scope filter and seeding (SpecParse, SpecSeed).        *)
(***************************************************************************)
\* C16: with crawl-external-links off, shouldCrawl(link, base) is true
\* exactly when the link's scheme is http or https and its host equals the
\* base host or ends with "." followed by the base host.
C16_ScopeExact ==
    (probe.fn = "shouldCrawl" /\ probe.done /\ ~CrawlExternalLinks) =>
        (probe.value <=>
            /\ SchemeOf(probe.link) \in {"http", "https"}
            /\ \/ HostOf(probe.link) = HostOf(probe.base)
               \/ HasSuffixChars(Chars(HostOf(probe.link)),
                                 <<".">> \o Chars(HostOf(probe.base))))

\* C17: every URL that entered the frontier through New() -- the start URL
\* and the URLs of the seeding strategies -- passes the scope filter: it is
\* HTTP(S) and in the scope of the start URL.
C17_SeedsFiltered ==
    \A h \in HostNames :
        \A i \in 1..Len(addLog[h]) : shouldCrawl(addLog[h][i].url, StartURL)

(***************************************************************************)
(* Claims about normalization (SpecParse).                                 *)
(***************************************************************************)
\* C18: for every accepted href/base pair, normalizing the output again,
\* with the output as href and as base, returns it unchanged; and
\* removeTrackingParams applied to its own output changes nothing.
C18_NormalizeIdempotent ==
    /\ (probe.fn = "normalizeURL" /\ probe.done /\ probe.out # NoURL) =>
          normalizeURL(probe.out, probe.out) = probe.out
    /\ (probe.fn = "removeTrackingParams" /\ probe.done) =>
          removeTrackingParams(probe.out) = probe.out

\* the parameters of a written query, decoded, without the tracking keys
KeptParams(q) ==
    LET keep(p) == p.k \notin TrackingParams
        kept == SelectSeq(q, keep)
    IN  [i \in 1..Len(kept) |-> [k |-> kept[i].k, v |-> Unescape(kept[i].v)]]

\* C19: removeTrackingParams deletes exactly the tracking keys and leaves
\* every other parameter in its original relative order with its original
\* value; with no parameter left the "?" is gone.
C19_TrackingRemoval ==
    (probe.fn = "removeTrackingParams" /\ probe.done) =>
        /\ KeptParams(probe.out.query) = KeptParams(probe.in.query)
        /\ \A i \in 1..Len(probe.out.query) :
              probe.out.query[i].k \notin TrackingParams
        /\ KeptParams(probe.in.query) = <<>> =>
              (probe.out.query = <<>> /\ ~probe.out.fq)

(***************************************************************************)
(* Claims about the retry handler's methods (SpecHandler).                 *)
(***************************************************************************)
\* C21: retry state is per host: the state of a host (its failure count,
\* backoff-until and lock) changes only in a step of a goroutine that is
\* inside a call for that very host, so calls for host A leave what
\* IsInBackoff(B) reads and waits for untouched.
C21_PerHostFrame ==
    [][\A b \in RetryHosts :
          hostRetries'[b] # hostRetries[b] =>
              \E g \in Goroutines :
                  /\ gs[g].host = b
                  /\ gs[g].pc \in {"lock", "locked"}]_vars

\* a failure was recorded for one host, and IsInBackoff of the other host,
\* whose state is untouched, has answered since
C21_Witness ==
    /\ hostRetries["t"].consecutiveFails = 1
    /\ hostRetries["sub.t"] = NewRetryState
    /\ probe.fn = "IsInBackoff"
    /\ probe.host = "sub.t"
    /\ ~probe.inBackoff

(***************************************************************************)
(* Claims about the configuration (SpecConfig).                            *)
(***************************************************************************)
\* C22: NewFromConfig returns an error and no crawler for every
\* configuration whose worker count is outside 1..1000, whose timeout is
\* not positive, whose data directory is empty, or whose max-retries is
\* outside 0..10.
C22_RejectsInvalid ==
    (/\ probe.fn = "NewFromConfig"
     /\ probe.done
     /\ \/ probe.config.Workers \notin 1..1000
        \/ probe.config.Timeout <= 0
        \/ probe.config.DataDir = ""
        \/ probe.config.MaxRetries \notin 0..10)
        => (probe.err # "" /\ ~probe.crawler)

\* a configuration whose only fault is 1001 workers was turned down
C22_Witness ==
    /\ probe.fn = "NewFromConfig"
    /\ probe.done
    /\ probe.config.Workers = 1001
    /\ probe.config.StartURL # ""
    /\ probe.config.Timeout > 0
    /\ probe.config.DataDir # ""
    /\ probe.config.MaxRetries \in 0..10
    /\ ~probe.config.EnablePersonas
    /\ probe.err # ""
    /\ ~probe.crawler

(***************************************************************************)
(* Claims about the frontier's counters under Crawl (Spec).                *)
(***************************************************************************)
\* C23: every dequeued item is matched by exactly one MarkProcessed call,
\* whatever the outcome of its processing: the frontier's processed counter
\* never exceeds the number of items dequeued and equals it when Crawl()
\* has returned.
C23_ProcessedMatchesDequeued ==
    /\ processed <= Dequeued
    /\ mainPc = "returned" => processed = Dequeued

\* C24: in every reachable state discovered >= processed + Size(), where
\* Size() is the sum of the host-queue lengths (items in flight are not
\* counted).
C24_DiscoveredBound == discovered >= processed + Size

\* the bound is tight: every item dequeued so far has been marked, some
\* are still queued
C24_Witness ==
    /\ processed >= 1
    /\ Size >= 1
    /\ discovered = processed + Size

\* the URLs New() added to the frontier: the start URL (no seeding
\* strategy yields a URL under Spec)
SeedsAdded == 1

\* C25: when Crawl() has returned, the frontier's discovered counter equals
\* the number of seeds added plus the engine's discovered counter, which
\* workers increment only for links whose Add succeeded.
C25_CountersConsistent ==
    mainPc = "returned" => discovered = SeedsAdded + cDiscovered

(***************************************************************************)
(* Claims about the fetch of robots.txt (SpecRobots).                      *)
(***************************************************************************)
\* C26: a fetch of robots.txt that fails or is answered with a status
\* outside 2xx never blocks a URL: the check returns allow for that
\* request, whatever the body of the answer.
C26_FailedFetchAllows ==
    (/\ probe.fn = "isAllowedByRobots"
     /\ probe.fetched
     /\ probe.answer.err \/ probe.answer.status \notin 200..299)
        => probe.allowed

\* C27: the cache follows the status of the last fetch for an origin: after
\* a network failure or a 4xx answer the next check of the origin fetches
\* nothing and allows; after a 5xx answer the next check fetches again;
\* after a 2xx answer with rules the next check fetches nothing and
\* answers from those rules.
C27_CacheFollowsStatus ==
    probe.fn = "isAllowedByRobots" =>
        /\ (probe.prev.err \/ probe.prev.status \in 400..499)
              => (~probe.fetched /\ probe.allowed)
        /\ probe.prev.status \in 500..599 => probe.fetched
        /\ (probe.prev.status \in 200..299 /\ probe.prev.body = "rules")
              => /\ ~probe.fetched
                 /\ probe.allowed <=>
                       probe.url \notin Disallowed(HostOf(probe.url))

(***************************************************************************)
(* Claims about the calls of the retry handler (SpecHandler).              *)
(***************************************************************************)
\* C28: no call of RecordFailure, RecordSuccess, GetBackoff or IsInBackoff
\* blocks forever: a goroutine inside a call is eventually outside again,
\* under every interleaving of two callers, and a goroutine outside holds
\* no host's lock.
C28_CallsReturn ==
    /\ \A g \in Goroutines : (gs[g].pc # "idle") ~> (gs[g].pc = "idle")
    /\ [](\A g \in Goroutines : \A h \in RetryHosts :
              gs[g].pc = "idle" => hostRetries[h].mu # g)

\* C29: RecordFailure(host, status) increments the host's failure count by
\* exactly one and sets last-failure to now, and it returns, having set
\* backoff-until to now + 2 * GetBackoff for status 429 and to
\* now + GetBackoff for any other status.
C29_RecordFailureEffect ==
    /\ [][\A g \in Goroutines :
            (/\ gs[g].pc = "locked"
             /\ gs[g].fn = "RecordFailure"
             /\ gs'[g] # gs[g])
                => LET h == gs[g].host
                   IN  /\ hostRetries'[h].consecutiveFails =
                              hostRetries[h].consecutiveFails + 1
                       /\ hostRetries'[h].lastFailTime = now]_vars
    /\ \A g \in Goroutines :
          (gs[g].pc = "lock" /\ gs[g].fn = "RecordFailure")
              ~> /\ gs[g].pc = "idle"
                 /\ probe.fn = "RecordFailure"
                 /\ hostRetries[probe.host].backoffUntil =
                       now + (IF probe.status = 429 THEN 2 * probe.value
                              ELSE probe.value)

C31_RetryLoopEnds ==
    /\ [](Len(requests) <= maxRetries + 1)
    /\ []((gs["worker"].pc \in {"exit", "done"}
           /\ requests # <<>>
           /\ ~requests[1].err
           /\ requests[1].status \in 400..499
           /\ requests[1].status # 429)
          => /\ Len(requests) = 1
             /\ recLog[HostOf(RetryURL)] = <<>>)
    /\ (gs["worker"].pc = "start") ~> (gs["worker"].pc = "done")

(***************************************************************************)
(* Claims about the wait for the workers (Spec).                           *)
(***************************************************************************)
\* what the workers write: the counters and the sink
WorkerEffects ==
    <<cDiscovered, cProcessed, cErrors, panicCount, processed, sink>>

\* C32: once the wait-group wait of Crawl() has returned, every spawned
\* worker has finished, the panic handler of a worker that faulted included:
\* no worker updates a counter or writes to the sink after that.
C32_WorkersDoneAtWait ==
    /\ [](mainPc \in {"close", "returned"} =>
             \A k \in TaskIds : tasks[k].pc = "finished")
    /\ [][(mainPc \in {"close", "returned"}) =>
             (WorkerEffects' = WorkerEffects)]_vars

(***************************************************************************)
(* Claims about the ring of hosts and the frame of Add and Next            *)
(* (SpecFrontier).                                                         *)
(***************************************************************************)
\* the hosts in the round-robin ring
Ring == {hosts[i] : i \in 1..Len(hosts)}

\* C33: a host key is in the round-robin ring exactly once from the first
\* Add for that host on: the ring has no duplicates, no entry is ever
\* removed, and the set of ring entries is the key set of the queue map.
C33_RingMatchesQueues ==
    /\ [](/\ \A i, j \in 1..Len(hosts) : hosts[i] = hosts[j] => i = j
          /\ Ring = DOMAIN queues)
    /\ [][(Len(hosts') >= Len(hosts))
          /\ (SubSeq(hosts', 1, Len(hosts)) = hosts)]_vars

\* two hosts are in the ring and one of them was added to more than once
C33_Witness ==
    /\ Len(hosts) = 2
    /\ \E h \in Ring : Len(addLog[h]) >= 2

\* C34: Add of a URL that does not parse returns false and appends nothing
\* to a host queue or to the ring, but the URL is recorded in the seen-set
\* and counted as discovered, so every later Add of it returns false too.
C34_UnparsableAdd ==
    /\ [](lastAdd.bad =>
             /\ ~lastAdd.ok
             /\ ~lastAdd.grew
             /\ SeenTest(seen, lastAdd.url)
             /\ lastAdd.counted = (IF lastAdd.seenBefore THEN 0 ELSE 1)
             /\ discovered >= 1)
    /\ [][\A u \in URLs :
             (~Parses(u) /\ SeenTest(seen, u)) => SeenTest(seen', u)]_vars

\* an unparsable URL was added a second time
C34_Witness ==
    /\ lastAdd.bad
    /\ lastAdd.seenBefore
    /\ lastAdd.url = BadURL
    /\ hosts # <<>>

\* C35: a Next() that returns an item removes the head of the chosen host's
\* queue, sets that host's last-access time and moves the cursor; the
\* queues and last-access times of the other hosts, the seen-set and both
\* counters stay as they were.
C35_NextFrame ==
    [][(CallNext /\ lastNext'.ok) =>
          LET h == lastNext'.host
          IN  /\ h \in DOMAIN queues
              /\ DOMAIN queues' = DOMAIN queues
              /\ queues'[h].urls = Tail(queues[h].urls)
              /\ queues'[h].lastAccess = now
              /\ queues'[h].politenessMs = queues[h].politenessMs
              /\ \A g \in DOMAIN queues \ {h} : queues'[g] = queues[g]
              /\ <<seen, discovered, processed, hosts>>' =
                 <<seen, discovered, processed, hosts>>]_vars

\* Next returned an item of one host while the other host had items queued
\* and had been served before
C35_Witness ==
    /\ lastNext.ok
    /\ \E g \in DOMAIN queues \ {lastNext.host} :
          /\ queues[g].urls # <<>>
          /\ queues[g].lastAccess # ZeroTime
          /\ queues[g].lastAccess # queues[lastNext.host].lastAccess

\* some host has a non-empty queue and is past its politeness interval
HostReady ==
    \E h \in DOMAIN queues : queues[h].urls # <<>> /\ Polite(queues[h], now)

\* C36: a Next() that returns (none, false) leaves the frontier as it was:
\* the queues, the last-access times, the seen-set, the counters and the
\* cursor (after a full revolution); and Next() returns false only if no
\* host both has a non-empty queue and is past its politeness interval.
C36_FailedNextFrame ==
    [][(CallNext /\ ~lastNext'.ok) => (fvars' = fvars /\ ~HostReady)]_vars

\* Next returned nothing with two hosts in the ring, one of them with a
\* queued item, and the cursor not at its initial position
C36_Witness ==
    /\ ~lastNext.ok
    /\ lastNext.same
    /\ Len(hosts) = 2
    /\ hostIndex = 1
    /\ ~IsEmpty

(***************************************************************************)
(* SpecRace: two workers that run isAllowedByRobots at the same time.  A   *)
(* worker runs from the cache lookup to the fetch in one step and from the *)
(* answer of the fetch to its return in another.                           *)
(***************************************************************************)
\* the answers after which a policy entry is in the cache of a crawler that
\* caches on a network failure, on 4xx and on a parsed 2xx
EntryExpected(f) ==
    \/ f.err
    \/ f.status \in 400..499
    \/ (f.status \in 200..299 /\ f.body = "rules")

\* g's last check is over and fetched robots.txt for the origin of u with
\* such an answer
FetchedFor(g, u) ==
    /\ checks[g].pc = "idle"
    /\ checks[g].url # ""
    /\ Parses(checks[g].url)
    /\ RobotsURL(checks[g].url) = RobotsURL(u)
    /\ checks[g].fetched
    /\ EntryExpected(checks[g].answer)

InitRace ==
    /\ InitFrontierVars
    /\ InitCrawler
    /\ InitNoRetry
    /\ InitNoSeeding

\* g enters isAllowedByRobots(u): url.Parse, c.robotsCache.Load(robotsURL),
\* and on a miss the call of c.client.Get(robotsURL)
RobotsLoad(g) ==
    /\ checks[g].pc = "idle"
    /\ \E u \in RobotsURLs :
          LET hit == Parses(u) /\ RobotsURL(u) \in robotsCache
              late == /\ Parses(u)
                      /\ \A o \in Goroutines : checks[o].pc = "idle"
                      /\ \E o \in Goroutines : FetchedFor(o, u)
          IN  checks' = [checks EXCEPT ![g] =
                  [pc |-> IF Parses(u) /\ ~hit THEN "get" ELSE "idle",
                   url |-> u, answer |-> NoFetch, fetched |-> FALSE,
                   allowed |-> hit /\ TestAgent(HostOf(u), u),
                   late |-> late]]
    /\ UNCHANGED <<fvars, now, obsvars, evars, rvars, robotsCache, seeds, cli,
                   epm, lastLease, pool, lastPersona>>

\* the fetch of g comes to f; g goes on to its return, storing the parsed
\* rules with c.robotsCache.Store(robotsURL, robots) if it gets that far
RobotsGet(g) ==
    /\ checks[g].pc = "get"
    /\ \E f \in RobotsAnswers :
          LET r == AfterGet(checks[g].url, f)
          IN  /\ robotsCache' = r.cache
              /\ checks' = [checks EXCEPT ![g].pc = "idle",
                                          ![g].answer = f,
                                          ![g].fetched = TRUE,
                                          ![g].allowed = r.allowed]
    /\ UNCHANGED <<fvars, now, obsvars, evars, rvars, seeds, cli, epm,
                   lastLease, pool, lastPersona>>

RobotsLoadStep == \E g \in Goroutines : RobotsLoad(g)
RobotsGetStep == \E g \in Goroutines : RobotsGet(g)

NextRace == RobotsLoadStep \/ RobotsGetStep

SpecRace == InitRace /\ [][NextRace]_vars

(***************************************************************************)
(* Claims about concurrent robots checks (SpecRace).                       *)
(***************************************************************************)
\* C37: when several workers run the robots check for one uncached origin
\* at the same time they may all fetch, but once all of them are done one
\* policy entry is stored for the origin, and every later check of the
\* origin uses the stored entry and does not fetch.
C37_OneEntryAfterRace ==
    /\ (\A o \in Goroutines : checks[o].pc = "idle") =>
          \A g \in Goroutines :
              FetchedFor(g, checks[g].url) =>
                  RobotsURL(checks[g].url) \in robotsCache
    /\ \A g \in Goroutines :
          checks[g].late => (checks[g].pc = "idle" /\ ~checks[g].fetched)

(***************************************************************************)
(* SpecClose: the crawl command: NewFromConfig, the deferred Close of the  *)
(* caller, Crawl() with its own deferred Close, and the return.            *)
(***************************************************************************)
\* hasAdvancedFeatures of NewFromConfig
hasAdvancedFeatures(config) ==
    \/ config.EnablePersonas
    \/ config.EnableProxies
    \/ config.EnableWeightedNav
    \/ config.EnableJSRendering
    \/ config.EnableSQLite

\* a release that is safe to repeat: a context.CancelFunc, sql.DB.Close,
\* os.File.Close (which returns an error the second time)
ReleaseOnce(c, r) ==
    [c EXCEPT !.released[r] = IF @ = 0 THEN 1 ELSE @]

\* Storage.Close: s.jsonl.Close()
StorageClose(c) == ReleaseOnce(c, "jsonl")

\* ProxyManager.Stop: close(pm.stopChan); closing a closed channel panics
Stop(c) ==
    IF c.released["stopChan"] > 0
    THEN [c EXCEPT !.fault = TRUE]
    ELSE [c EXCEPT !.released["stopChan"] = 1]

\* Crawler.Close of the standard crawler: shutdown.Store(true), cancel(),
\* and storage.Close(); its renderer and SQLite fields are nil
CrawlerClose(c) == StorageClose([c EXCEPT !.closes = @ + 1])

\* EnhancedCrawler.Close: chromeRenderer.Close(), sqliteStorage.Close(),
\* proxyManager.Stop(), storage.Close(); a panic ends it where it happens
EnhancedClose(c) ==
    LET c0 == [c EXCEPT !.closes = @ + 1]
        c1 == IF c0.chromeRenderer THEN ReleaseOnce(c0, "allocCancel") ELSE c0
        c2 == IF c1.sqliteStorage THEN ReleaseOnce(c1, "db") ELSE c1
        c3 == IF c2.proxyManager THEN Stop(c2) ELSE c2
    IN  IF c3.fault THEN c3 ELSE StorageClose(c3)

\* c.Close() through the CrawlerInterface
Close(c) ==
    IF c.kind = "enhanced" THEN EnhancedClose(c) ELSE CrawlerClose(c)

InitClose ==
    /\ InitFrontierVars
    /\ InitCrawler
    /\ InitNoRetry
    /\ InitNoSeeding

\* c, err := crawler.NewFromConfig(config); on an error the command returns,
\* else it defers c.Close().  NewEnhanced keeps a proxy manager that
\* started, a renderer and a SQLite store that could be opened.
CliNewFromConfig ==
    /\ cli.pc = "start"
    /\ \E config \in FeatureConfigs, ok, chromeOk, sqliteOk \in BOOLEAN :
          cli' = IF ~ok
                 THEN [cli EXCEPT !.pc = "exit", !.err = TRUE]
                 ELSE [cli EXCEPT
                         !.pc = "crawl",
                         !.config = config,
                         !.kind = IF hasAdvancedFeatures(config)
                                  THEN "enhanced" ELSE "standard",
                         !.proxyManager = config.EnableProxies,
                         !.chromeRenderer =
                             config.EnableJSRendering /\ chromeOk,
                         !.sqliteStorage = config.EnableSQLite /\ sqliteOk]
    /\ UNCHANGED <<fvars, now, obsvars, evars, rvars, robotsCache, seeds,
                   checks, epm, lastLease, pool, lastPersona>>

\* c.Crawl() up to its return statement: storage.SaveConfig fails, or the
\* main loop runs and the workers are waited for
CrawlRun ==
    /\ cli.pc = "crawl"
    /\ \E saved \in BOOLEAN :
          cli' = [cli EXCEPT !.pc = "deferred", !.err = ~saved]
    /\ UNCHANGED <<fvars, now, obsvars, evars, rvars, robotsCache, seeds,
                   checks, epm, lastLease, pool, lastPersona>>

\* the deferred calls of Crawl(): Close(), then storage.Close(), which also
\* runs when Close() panicked
CrawlDeferred ==
    /\ cli.pc = "deferred"
    /\ cli' = [StorageClose(Close(cli)) EXCEPT !.pc = "caller"]
    /\ UNCHANGED <<fvars, now, obsvars, evars, rvars, robotsCache, seeds,
                   checks, epm, lastLease, pool, lastPersona>>

\* the deferred c.Close() of the command
CliDeferred ==
    /\ cli.pc = "caller"
    /\ LET c == Close(cli)
       IN  cli' = [c EXCEPT !.pc = IF c.fault THEN "crashed" ELSE "exit"]
    /\ UNCHANGED <<fvars, now, obsvars, evars, rvars, robotsCache, seeds,
                   checks, epm, lastLease, pool, lastPersona>>

NextClose == CliNewFromConfig \/ CrawlRun \/ CrawlDeferred \/ CliDeferred

SpecClose == InitClose /\ [][NextClose]_vars

(***************************************************************************)
(* Claims about Close (SpecClose).                                         *)
(***************************************************************************)
\* C38: closing the crawler twice, as the deferred Close of Crawl() followed
\* by the deferred Close of the caller does, releases nothing twice and
\* raises no fault, on every exit path and also with the proxy manager, the
\* renderer or SQLite enabled.
C38_CloseIdempotent ==
    /\ ~cli.fault
    /\ \A r \in Resources : cli.released[r] <= 1

(***************************************************************************)
(* SpecLease: callers of LeaseProxy, ReleaseProxy and CleanupExpiredLeases *)
(* of one EnhancedProxyManager while time passes.  Every method holds      *)
(* epm.mu from its first to its last statement.                            *)
(***************************************************************************)
\* the lease durations and countries callers ask for
LeaseDurations == {TickMs, 2 * TickMs}
Countries == {"", "US"}

\* time.Now().After(u)
After(t, u) == t > u

\* proxy.LeasedTo != "" && time.Now().Before(proxy.LeaseExpires)
LeasedNow(px, t) == px.LeasedTo # "" /\ Before(t, px.LeaseExpires)

\* score p > score q, where score is SuccessCount / (FailCount + 1) (the
\* proxies have no latency measured and are not "elite")
BetterScore(px, qx) ==
    px.SuccessCount * (qx.FailCount + 1) > qx.SuccessCount * (px.FailCount + 1)

\* the proxies the loop of LeaseProxy does not skip
Available(m, country, t) ==
    {p \in ProxyURLs :
        /\ ~LeasedNow(m.enhancedProxies[p], t)
        /\ ~(m.enhancedProxies[p].FailCount >= m.maxFailCount)
        /\ ~(country # "" /\ m.enhancedProxies[p].Country # country)}

\* the proxies the loop may end with as bestProxy: the map is ranged over
\* in any order and a later proxy replaces bestProxy only on a greater score
Best(m, country, t) ==
    {p \in Available(m, country, t) :
        \A q \in Available(m, country, t) :
            ~BetterScore(m.enhancedProxies[q], m.enhancedProxies[p])}

\* the persona has an entry in epm.leases and time.Now() is before the
\* LeaseExpires of that proxy
KeepsLease(m, a, t) ==
    /\ m.leases[a] # ""
    /\ Before(t, m.enhancedProxies[m.leases[a]].LeaseExpires)

\* LeaseProxy(personaID, duration, country): the outcomes it may come to
LeaseProxyResults(m, a, d, country, t) ==
    IF KeepsLease(m, a, t)
    THEN {[epm |-> [m EXCEPT
                      !.enhancedProxies[m.leases[a]].LeaseExpires = t + d],
           proxy |-> m.leases[a]]}
    ELSE IF Best(m, country, t) = {}
    THEN {[epm |-> m, proxy |-> ""]}
    ELSE {[epm |-> [m EXCEPT !.enhancedProxies[p].LeasedTo = a,
                             !.enhancedProxies[p].LeaseExpires = t + d,
                             !.leases[a] = p],
           proxy |-> p] : p \in Best(m, country, t)}

\* ReleaseProxy(personaID)
ReleaseProxyResult(m, a) ==
    IF m.leases[a] # ""
    THEN [m EXCEPT !.enhancedProxies[m.leases[a]].LeasedTo = "",
                   !.enhancedProxies[m.leases[a]].LeaseExpires = ZeroTime,
                   !.leases[a] = ""]
    ELSE m

\* CleanupExpiredLeases: an entry of epm.leases goes, and its proxy is
\* cleared, when now is after the proxy's LeaseExpires; a proxy cleared for
\* one entry has the zero time for the next
CleanupResult(m, t) ==
    LET expired == {a \in PersonaIDs :
                       /\ m.leases[a] # ""
                       /\ After(t, m.enhancedProxies[m.leases[a]].LeaseExpires)}
        cleared == {m.leases[a] : a \in expired}
    IN  [m EXCEPT
           !.enhancedProxies = [p \in ProxyURLs |->
               IF p \in cleared
               THEN [m.enhancedProxies[p] EXCEPT !.LeasedTo = "",
                                                 !.LeaseExpires = ZeroTime]
               ELSE m.enhancedProxies[p]],
           !.leases = [a \in PersonaIDs |->
               IF a \in expired THEN "" ELSE m.leases[a]]]

InitLease ==
    /\ InitFrontierVars
    /\ InitCrawler
    /\ InitNoRetry
    /\ InitNoSeeding

\* a caller leases a proxy for persona a
CallLeaseProxy ==
    /\ \E a \in PersonaIDs, d \in LeaseDurations, country \in Countries :
          \E r \in LeaseProxyResults(epm, a, d, country, now) :
              /\ epm' = r.epm
              /\ lastLease' =
                    [fn |-> "LeaseProxy", persona |-> a, proxy |-> r.proxy,
                     owner |-> IF r.proxy = "" THEN ""
                               ELSE epm.enhancedProxies[r.proxy].LeasedTo,
                     valid |-> r.proxy # ""
                               /\ LeasedNow(epm.enhancedProxies[r.proxy], now)]
    /\ UNCHANGED <<fvars, now, obsvars, evars, rvars, robotsCache, seeds,
                   checks, cli, pool, lastPersona>>

\* a caller releases the proxy of persona a
CallReleaseProxy ==
    /\ \E a \in PersonaIDs :
          /\ epm' = ReleaseProxyResult(epm, a)
          /\ lastLease' =
                [fn |-> "ReleaseProxy", persona |-> a,
                 proxy |-> epm.leases[a],
                 owner |-> IF epm.leases[a] = "" THEN ""
                           ELSE epm.enhancedProxies[epm.leases[a]].LeasedTo,
                 valid |-> epm.leases[a] # ""
                           /\ LeasedNow(epm.enhancedProxies[epm.leases[a]],
                                        now)]
    /\ UNCHANGED <<fvars, now, obsvars, evars, rvars, robotsCache, seeds,
                   checks, cli, pool, lastPersona>>

\* periodicCleanup: ec.proxyManager.CleanupExpiredLeases()
CallCleanupExpiredLeases ==
    /\ epm' = CleanupResult(epm, now)
    /\ lastLease' = [NoLease EXCEPT !.fn = "CleanupExpiredLeases"]
    /\ UNCHANGED <<fvars, now, obsvars, evars, rvars, robotsCache, seeds,
                   checks, cli, pool, lastPersona>>

NextLease ==
    \/ CallLeaseProxy
    \/ CallReleaseProxy
    \/ CallCleanupExpiredLeases
    \/ Tick

SpecLease == InitLease /\ [][NextLease]_vars

(***************************************************************************)
(* Claims about proxy leases (SpecLease).                                  *)
(***************************************************************************)
\* C39: proxy leases are exclusive: LeaseProxy never returns to one persona
\* a proxy that another persona holds under an unexpired lease, and
\* ReleaseProxy of one persona never clears the unexpired lease of another;
\* so no proxy is ever held under an unexpired lease by two personas (a
\* second holder can only come from one of these two calls).
C39_LeasesExclusive ==
    (lastLease.fn \in {"LeaseProxy", "ReleaseProxy"} /\ lastLease.valid)
        => lastLease.owner = lastLease.persona

(***************************************************************************)
(* SpecPool: callers of GetOrCreatePersona of one PersonaPool while time   *)
(* passes.  The method holds pp.mu from its first to its last statement.   *)
(***************************************************************************)
\* personas a pool creates before the callers stop
MaxPersonaIds == 4

\* the pools New and NewEnhanced build (a value <= 0 of the configuration
\* is replaced by a positive default)
PoolConfigs ==
    {NewPersonaPool(m, l, r) :
        m \in {1, 2}, l \in {TickMs, 2 * TickMs}, r \in {1, 2, 3}}

\* time.Since(p.Created) > pp.personaLifetime
isExpired(p, pl, t) == t - p.Created > pl.personaLifetime

isOverused_Never(p, pl) == FALSE
\* p.RequestCount >= pp.reuseThreshold
isOverused(p, pl) == p.RequestCount >= pl.reuseThreshold

\* the personas the loop of GetOrCreatePersona may return
Suitable(pl, t) ==
    {p \in pl.personas : ~isExpired(p, pl, t) /\ ~isOverused(p, pl)}

\* cleanupExpired
cleanupExpired(pl, t) ==
    [pl EXCEPT !.personas =
        {p \in @ : ~(isExpired(p, pl, t) \/ isOverused(p, pl))}]

\* createPersona: a fresh id, Created and LastUsed now, RequestCount 1
createPersona(pl, t) ==
    [ID |-> pl.nextId, Created |-> t, LastUsed |-> t, RequestCount |-> 1]

\* GetOrCreatePersona(host): the outcomes it may come to.  The map is
\* ranged over in any order and the first suitable persona is returned;
\* without one, a pool that is full is cleaned up and a persona is created
\* (or createPersona fails on the cookie jar)
GetOrCreatePersonaResults(pl, t) ==
    IF Suitable(pl, t) # {}
    THEN {[pool |-> [pl EXCEPT !.personas =
                        (@ \ {p}) \cup {[p EXCEPT !.LastUsed = t,
                                                  !.RequestCount = @ + 1]}],
           id |-> p.ID, created |-> FALSE, err |-> FALSE] :
             p \in Suitable(pl, t)}
    ELSE LET pl1 == IF Cardinality(pl.personas) >= pl.maxPersonas
                    THEN cleanupExpired(pl, t) ELSE pl
         IN  {[pool |-> [pl1 EXCEPT
                           !.personas = @ \cup {createPersona(pl, t)},
                           !.nextId = @ + 1],
               id |-> pl.nextId, created |-> TRUE, err |-> FALSE],
              [pool |-> pl1, id |-> 0, created |-> FALSE, err |-> TRUE]}

InitPool ==
    /\ InitFrontierVars
    /\ InitCrawler
    /\ InitNoRetry
    /\ robotsCache = {}
    /\ seeds = <<>>
    /\ InitNoChecks
    /\ InitNoCli
    /\ InitNoLeases
    /\ pool \in PoolConfigs
    /\ lastPersona = NoPersonaCall

\* a worker asks for the persona of a host
CallGetOrCreatePersona ==
    /\ \E host \in RetryHosts :
          \E r \in GetOrCreatePersonaResults(pool, now) :
              /\ r.created => pool.nextId <= MaxPersonaIds
              /\ pool' = r.pool
              /\ lastPersona' =
                    [host |-> host, id |-> r.id, created |-> r.created,
                     err |-> r.err, prevHost |-> lastPersona.host,
                     expect |->
                        IF \E p \in Suitable(pool, now) :
                               p.ID = lastPersona.id
                        THEN lastPersona.id ELSE 0]
    /\ UNCHANGED <<fvars, now, obsvars, evars, rvars, robotsCache, seeds,
                   checks, cli, epm, lastLease>>

NextPool == CallGetOrCreatePersona \/ Tick

SpecPool == InitPool /\ [][NextPool]_vars

(***************************************************************************)
(* Claims about the persona pool (SpecPool).                               *)
(***************************************************************************)
\* C40: GetOrCreatePersona for the same host returns the persona of the
\* call before as long as that persona is neither older than the persona
\* lifetime nor at its reuse limit; the request count of a persona never
\* exceeds the reuse limit, and the pool never holds more than maxPersonas
\* personas.
C40_PersonaReuse ==
    /\ (lastPersona.expect # 0 /\ lastPersona.prevHost = lastPersona.host)
          => lastPersona.id = lastPersona.expect
    /\ \A p \in pool.personas : p.RequestCount <= pool.reuseThreshold
    /\ Cardinality(pool.personas) <= pool.maxPersonas

\* a call returned the persona of the call before for the same host, which
\* thereby reached its reuse limit, in a pool that holds maxPersonas
\* personas
C40_Witness ==
    /\ lastPersona.expect # 0
    /\ lastPersona.prevHost = lastPersona.host
    /\ lastPersona.id = lastPersona.expect
    /\ Cardinality(pool.personas) = 2
    /\ pool.maxPersonas = 2
    /\ \E p \in pool.personas :
          p.ID = lastPersona.id /\ p.RequestCount = pool.reuseThreshold

====
